---- MODULE Spec2Model ----
(***************************************************************************)
(* Model of the link ingestion pipeline of the Silo link manager:          *)
(*   link_processor.py   (fetch -> metadata -> render -> OCR ladder)       *)
(*   rendering_client.py (render service client)                           *)
(*   vision.py           (screenshot OCR)                                  *)
(*   link_intelligence.py (AI enrichment with fallback retry)              *)
(*   database.py         (persistence operations)                          *)
(*   handlers.py         (handle_urls, the save of one shared URL)         *)
(*                                                                         *)
(* Texts are abstracted to what the code inspects of them: where the text  *)
(* came from, how many whitespace-delimited tokens it has, and whether it  *)
(* carries leading/trailing whitespace.  Optional values are <<>> (None)   *)
(* or <<v>>.                                                               *)
(***************************************************************************)
EXTENDS Integers, Sequences, FiniteSets, TLC

\* ------------------------------------------------------------------ bounds

\* Longest page modelled, in units of 200 words (one minute of read time).
MaxPages == 1

\* ------------------------------------------------------- program constants

\* config.RENDERER_MIN_WORDS default
RENDERER_MIN_WORDS == 40

\* words per minute of the read-time estimate
WORDS_PER_MINUTE == 200

\* ---------------------------------------------------------------- optionals

None == <<>>

Some(v) == <<v>>

IsNone(o) == o = <<>>

\* -------------------------------------------------------------------- texts

\* The empty string.
EmptyText == [origin |-> "none", words |-> 0, padded |-> FALSE]

\* Python truthiness of a string: `not text`.
IsEmptyText(t) == t = EmptyText

\* len(text.split())
WordCount(t) == t.words

\* The text left as it is.
Strip_nothing(t) == t

\* str.strip(): a text with no token strips to the empty string.
Strip(t) == IF t.words = 0 THEN EmptyText ELSE [t EXCEPT !.padded = FALSE]

\* Word counts around the two thresholds the code compares against.
WordCounts ==
    {0, 1, RENDERER_MIN_WORDS - 1, RENDERER_MIN_WORDS}
        \cup {WORDS_PER_MINUTE * k : k \in 1..MaxPages}
        \cup {WORDS_PER_MINUTE * k + 1 : k \in 1..MaxPages}

\* math.ceil(word_count / 200) if word_count else None
ReadTime(word_count) ==
    IF word_count = 0
    THEN None
    ELSE Some((word_count + WORDS_PER_MINUTE - 1) \div WORDS_PER_MINUTE)

\* --------------------------------------------------------------------- html

\* An HTML document, by what extract_metadata reads of it: the number of
\* visible words, whether a description meta tag is present, and whether a
\* <link rel="icon"> tag lacks its href attribute.
EmptyHtml == [origin |-> "none", words |-> 0, desc |-> FALSE, icon |-> "ok"]

Htmls(origin) ==
    [origin : {origin}, words : WordCounts, desc : BOOLEAN, icon : {"ok", "nohref"}]

\* extract_text_content: the cleaned text is stripped.
extract_text_content(html) ==
    IF html = EmptyHtml \/ html.words = 0
    THEN EmptyText
    ELSE [origin |-> html.origin, words |-> html.words, padded |-> FALSE]

\* {} : the metadata of an empty document.
EmptyMetadata ==
    [extracted |-> FALSE, src |-> "none", description |-> None,
     word_count |-> None, read_time |-> None]

\* favicon_tag["href"] raises KeyError when the icon link has no href.
extract_metadata_raises(html) == html # EmptyHtml /\ html.icon = "nohref"

\* extract_metadata without its text_content entry (popped by the caller).
extract_metadata(html) ==
    IF html = EmptyHtml
    THEN EmptyMetadata
    ELSE [extracted |-> TRUE,
          src |-> html.origin,
          description |-> IF html.desc THEN Some(html.origin) ELSE None,
          word_count |-> Some(WordCount(extract_text_content(html))),
          read_time |-> ReadTime(WordCount(extract_text_content(html)))]

\* metadata.pop("text_content", "") or ""
metadata_text(html) ==
    IF html = EmptyHtml THEN EmptyText ELSE extract_text_content(html)

\* _update_metadata_counts that keeps the counts of the extraction.
update_metadata_counts_stale(metadata, text_content) ==
    IF metadata.extracted THEN metadata
    ELSE [metadata EXCEPT !.word_count = Some(0), !.read_time = None]

\* _update_metadata_counts
update_metadata_counts(metadata, text_content) ==
    [metadata EXCEPT !.word_count = Some(WordCount(text_content)),
                     !.read_time = ReadTime(WordCount(text_content))]

\* ------------------------------------------------------------ configuration

\* The settings of config.py the pipeline reads.  RENDERER_URL is TRUE when
\* the environment sets a non-empty renderer endpoint.
Configs ==
    [ENABLE_RENDERER : BOOLEAN, RENDERER_URL : BOOLEAN,
     ENABLE_SCREENSHOT_OCR : BOOLEAN]

\* ---------------------------------------------------------- render service

\* Texts the render service or the vision model can send: possibly padded
\* with whitespace, possibly whitespace only.
RawTexts(origin) ==
    {EmptyText} \cup
    [origin : {origin}, words : {0, 1, RENDERER_MIN_WORDS}, padded : {TRUE}] \cup
    [origin : {origin}, words : {1, RENDERER_MIN_WORDS}, padded : {FALSE}]

\* A JSON object body of the render service.
RenderObjects ==
    [html : {EmptyHtml} \cup Htmls("rendered"),
     text_content : RawTexts("rtext"),
     resolved_url : {None, Some("resolved")},
     screenshot_base64 : {"absent", "valid", "undecodable"}]

NoRenderObject ==
    [html |-> EmptyHtml, text_content |-> EmptyText, resolved_url |-> None,
     screenshot_base64 |-> "absent"]

\* What the POST to the render service can come back with.
RenderResponses ==
    [kind : {"transport_error", "non_json", "json_not_object"},
     data : {NoRenderObject}]
        \cup [kind : {"json_object"}, data : RenderObjects]

\* render_with_browser: "none" is the None return, "raise" an exception that
\* leaves the function (data.get on a JSON body that is not an object).
render_with_browser(cfg, resp) ==
    IF ~cfg.ENABLE_RENDERER \/ ~cfg.RENDERER_URL
    THEN [kind |-> "none", result |-> NoRenderObject]
    ELSE IF resp.kind \in {"transport_error", "non_json"}
    THEN [kind |-> "none", result |-> NoRenderObject]
    ELSE IF resp.kind = "json_not_object"
    THEN [kind |-> "raise", result |-> NoRenderObject]
    ELSE IF resp.data.html = EmptyHtml
            /\ IsEmptyText(resp.data.text_content)
            /\ resp.data.screenshot_base64 = "absent"
    THEN [kind |-> "none", result |-> NoRenderObject]
    ELSE [kind |-> "result", result |-> resp.data]

\* ------------------------------------------------------------------ vision

\* What the vision model call can come back with.
VisionResponses ==
    [kind : {"raise"}, text : {EmptyText}]
        \cup [kind : {"output"}, text : RawTexts("ocr")]

\* extract_text_from_image: "" when OCR is disabled, the image is missing or
\* the call fails; otherwise the collected output text, stripped.
extract_text_from_image(cfg, image_base64, vresp) ==
    IF ~cfg.ENABLE_SCREENSHOT_OCR \/ image_base64 = "absent"
    THEN EmptyText
    ELSE IF vresp.kind = "raise"
    THEN EmptyText
    ELSE Strip(vresp.text)

\* -------------------------------------------------------------- screenshot

\* _persist_screenshot: None when the base64 does not decode or the file
\* cannot be written, otherwise the path of the new file.
persist_screenshot(image_base64, write_ok) ==
    IF image_base64 = "absent" THEN None
    ELSE IF image_base64 = "undecodable" THEN None
    ELSE IF ~write_ok THEN None
    ELSE Some("screenshot")

\* ================================================================ variables

VARIABLES
    cfg,            \* config: the settings read by the pipeline
    pu_pc,          \* process_url: position in the function
    pu,             \* process_url: its local variables
    pu_result,      \* process_url: the value returned (None or <<record>>)
    render_calls,   \* number of render_with_browser invocations of the run
    ocr_calls,      \* number of extract_text_from_image invocations of the run
    pu_obs,         \* values observed during the run (history)
    ai_cfg,         \* config.DEFAULT_MODEL ("" when the environment sets none)
    ai_pc,          \* analyze_text_content: position in the function
    ai_frame,       \* analyze_text_content: arguments of the running call
    ai_calls,       \* chat completion requests issued by the invocation
    ai_result,      \* analyze_text_content: the value returned
    db,             \* the committed contents of the PostgreSQL tables
    METADATA_SCHEMA_ENSURED,    \* database._METADATA_SCHEMA_ENSURED
    db_log,         \* calls of the persistence specifications (history)
    hu,             \* handle_urls: the local variables of each running task
    hu_obs,         \* handle_urls: what each task called so far (history)
    fq_pc,          \* find_links_by_query: position in the function
    fq,             \* find_links_by_query: its arguments and local variables
    fq_calls,       \* the database calls find_links_by_query made (history)
    fq_result,      \* find_links_by_query: the value returned
    fq_obs,         \* the candidates handed to the temporal filter (history)
    ar_pc,          \* archive_link: position in the function
    ar,             \* archive_link: its arguments and local variables
    ar_result,      \* archive_link: how the call ended
    ar_obs,         \* archive_link: the steps of the call (history)
    files,          \* the snapshot directory: path -> content
    clock           \* the clock, in seconds

puVars == <<cfg, pu_pc, pu, pu_result, render_calls, ocr_calls, pu_obs>>

aiVars == <<ai_cfg, ai_pc, ai_frame, ai_calls, ai_result>>

dbVars == <<db, METADATA_SCHEMA_ENSURED, db_log>>

huVars == <<hu, hu_obs>>

fqVars == <<fq_pc, fq, fq_calls, fq_result, fq_obs>>

arVars == <<ar_pc, ar, ar_result, ar_obs, files, clock>>

vars == <<puVars, aiVars, dbVars, huVars, fqVars, arVars>>

notPu == <<aiVars, dbVars, huVars, fqVars, arVars>>

notAi == <<puVars, dbVars, huVars, fqVars, arVars>>

notDb == <<puVars, aiVars, huVars, fqVars, arVars>>

\* handle_urls shares the tables with the persistence layer.
notHu == <<puVars, aiVars, db_log, fqVars, arVars>>

notFq == <<puVars, aiVars, dbVars, huVars, arVars>>

\* archive_link writes the tables too.
notAr == <<puVars, aiVars, METADATA_SCHEMA_ENSURED, db_log, huVars, fqVars>>

\* ============================================================== process_url

\* What fetch_page_content can return: None on a transport or HTTP error,
\* otherwise the page (empty html when the content type is not text).
FetchOutcomes == {None} \cup {Some(h) : h \in {EmptyHtml} \cup Htmls("direct")}

PuLocalsInit ==
    [html |-> EmptyHtml, final_url |-> "requested", metadata |-> EmptyMetadata,
     text_content |-> EmptyText, extraction_method |-> "direct",
     render_status |-> None, screenshot_path |-> None,
     render_result |-> NoRenderObject]

PuObsInit ==
    [fetched |-> FALSE, direct_done |-> FALSE, direct_text |-> EmptyText,
     direct_metadata |-> EmptyMetadata, render_kind |-> "not_called",
     render_response |-> "not_called",
     text_after_render |-> EmptyText, ocr_text |-> EmptyText,
     text_tier |-> "direct"]

PuInit ==
    /\ cfg \in Configs
    /\ pu_pc = "start"
    /\ pu = PuLocalsInit
    /\ pu_result = None
    /\ render_calls = 0
    /\ ocr_calls = 0
    /\ pu_obs = PuObsInit

\* _should_retry_with_renderer with the description test dropped.
should_retry_ignoring_description(config, text_content, metadata) ==
    IF ~config.ENABLE_RENDERER \/ ~config.RENDERER_URL THEN FALSE
    ELSE IF IsEmptyText(text_content) THEN TRUE
    ELSE WordCount(text_content) < RENDERER_MIN_WORDS

\* _should_retry_with_renderer
should_retry_with_renderer(config, text_content, metadata) ==
    IF ~config.ENABLE_RENDERER \/ ~config.RENDERER_URL THEN FALSE
    ELSE IF IsEmptyText(text_content) THEN TRUE
    ELSE IF WordCount(text_content) >= RENDERER_MIN_WORDS THEN FALSE
    ELSE IF WordCount(text_content) < RENDERER_MIN_WORDS
            /\ IsNone(metadata.description) THEN TRUE
    ELSE FALSE

\* needs_ocr that no longer looks at the text.
needs_ocr_always(text_content) == TRUE

\* needs_ocr of process_url
needs_ocr(text_content) ==
    IsEmptyText(text_content) \/ WordCount(text_content) < RENDERER_MIN_WORDS

\* process_url, lines 213-227: the tier-1 fetch and the direct metadata.
PU_Fetch ==
    /\ pu_pc = "start"
    /\ \E page \in FetchOutcomes :
        IF IsNone(page)
        THEN /\ pu_pc' = "done"
             /\ pu_result' = None
             /\ UNCHANGED <<pu, pu_obs>>
        ELSE IF extract_metadata_raises(page[1])
        THEN /\ pu_pc' = "raised"
             /\ pu' = [pu EXCEPT !.html = page[1], !.final_url = "fetched"]
             /\ pu_obs' = [pu_obs EXCEPT !.fetched = TRUE]
             /\ UNCHANGED pu_result
        ELSE /\ pu_pc' = "check_render"
             /\ pu' = [pu EXCEPT !.html = page[1],
                                 !.final_url = "fetched",
                                 !.metadata = extract_metadata(page[1]),
                                 !.text_content = metadata_text(page[1])]
             /\ pu_obs' = [pu_obs EXCEPT
                              !.fetched = TRUE,
                              !.direct_done = TRUE,
                              !.direct_text = metadata_text(page[1]),
                              !.direct_metadata = extract_metadata(page[1])]
             /\ UNCHANGED pu_result
    /\ UNCHANGED <<cfg, render_calls, ocr_calls>>
    /\ UNCHANGED notPu

\* The locals after a render result was taken in (lines 232-246).
apply_render_result(locals, rr) ==
    LET withUrl == [locals EXCEPT
                       !.extraction_method = "renderer",
                       !.render_status = Some("rendered"),
                       !.final_url = IF IsNone(rr.resolved_url)
                                     THEN locals.final_url ELSE "resolved",
                       !.render_result = rr]
        withHtml == IF rr.html # EmptyHtml
                    THEN [withUrl EXCEPT !.html = rr.html,
                                         !.metadata = extract_metadata(rr.html),
                                         !.text_content = metadata_text(rr.html)]
                    ELSE withUrl
    IN  IF IsEmptyText(withHtml.text_content) /\ ~IsEmptyText(rr.text_content)
        THEN [withHtml EXCEPT !.text_content = Strip(rr.text_content)]
        ELSE withHtml

\* Which assignment of lines 236-246 the text after the render step is from.
render_text_tier(locals, rr) ==
    IF IsEmptyText(IF rr.html # EmptyHtml THEN metadata_text(rr.html)
                   ELSE locals.text_content)
       /\ ~IsEmptyText(rr.text_content)
    THEN "renderer_text"
    ELSE IF rr.html # EmptyHtml THEN "rendered_html" ELSE "direct"

\* process_url, line 229 not taken: no escalation.
PU_SkipRender ==
    /\ pu_pc = "check_render"
    /\ ~should_retry_with_renderer(cfg, pu.text_content, pu.metadata)
    /\ pu_pc' = "finish"
    /\ pu_obs' = [pu_obs EXCEPT !.text_after_render = pu.text_content]
    /\ UNCHANGED <<cfg, pu, pu_result, render_calls, ocr_calls>>
    /\ UNCHANGED notPu

\* process_url, lines 229-246: the render escalation.
PU_Render ==
    /\ pu_pc = "check_render"
    /\ should_retry_with_renderer(cfg, pu.text_content, pu.metadata)
    /\ render_calls' = render_calls + 1
    /\ \E resp \in RenderResponses :
        LET r == render_with_browser(cfg, resp) IN
        IF r.kind = "raise"
        THEN /\ pu_pc' = "raised"
             /\ pu_obs' = [pu_obs EXCEPT !.render_kind = "raise",
                                         !.render_response = resp.kind]
             /\ UNCHANGED pu
        ELSE IF r.kind = "none"
        THEN /\ pu_pc' = "finish"
             /\ pu_obs' = [pu_obs EXCEPT !.render_kind = "none",
                                         !.render_response = resp.kind,
                                         !.text_after_render = pu.text_content]
             /\ UNCHANGED pu
        ELSE IF r.result.html # EmptyHtml /\ extract_metadata_raises(r.result.html)
        THEN /\ pu_pc' = "raised"
             /\ pu_obs' = [pu_obs EXCEPT !.render_kind = "result",
                                         !.render_response = resp.kind]
             /\ pu' = [pu EXCEPT !.extraction_method = "renderer",
                                 !.render_status = Some("rendered"),
                                 !.render_result = r.result,
                                 !.html = r.result.html]
        ELSE /\ pu' = apply_render_result(pu, r.result)
             /\ pu_obs' = [pu_obs EXCEPT
                              !.render_kind = "result",
                              !.render_response = resp.kind,
                              !.text_tier = render_text_tier(pu, r.result),
                              !.text_after_render =
                                  apply_render_result(pu, r.result).text_content]
             /\ pu_pc' = IF r.result.screenshot_base64 # "absent"
                         THEN "screenshot" ELSE "finish"
    /\ UNCHANGED <<cfg, pu_result, ocr_calls>>
    /\ UNCHANGED notPu

\* process_url, lines 248-252: the screenshot is written to disk.
PU_Screenshot ==
    /\ pu_pc = "screenshot"
    /\ \E write_ok \in BOOLEAN :
        pu' = [pu EXCEPT !.screenshot_path =
                  persist_screenshot(pu.render_result.screenshot_base64, write_ok)]
    /\ pu_pc' = "check_ocr"
    /\ UNCHANGED <<cfg, pu_result, render_calls, ocr_calls, pu_obs>>
    /\ UNCHANGED notPu

\* process_url, line 255 not taken.
PU_SkipOcr ==
    /\ pu_pc = "check_ocr"
    /\ ~needs_ocr(pu.text_content)
    /\ pu_pc' = "finish"
    /\ UNCHANGED <<cfg, pu, pu_result, render_calls, ocr_calls, pu_obs>>
    /\ UNCHANGED notPu

\* process_url, lines 254-261: the OCR escalation.
PU_Ocr ==
    /\ pu_pc = "check_ocr"
    /\ needs_ocr(pu.text_content)
    /\ ocr_calls' = ocr_calls + 1
    /\ \E vresp \in VisionResponses :
        LET ocr_text == extract_text_from_image(
                            cfg, pu.render_result.screenshot_base64, vresp) IN
        /\ pu' = IF ~IsEmptyText(ocr_text)
                 THEN [pu EXCEPT !.text_content = Strip(ocr_text)]
                 ELSE pu
        /\ pu_obs' = [pu_obs EXCEPT
                         !.ocr_text = ocr_text,
                         !.text_tier = IF ~IsEmptyText(ocr_text)
                                       THEN "ocr" ELSE pu_obs.text_tier]
    /\ pu_pc' = "finish"
    /\ UNCHANGED <<cfg, pu_result, render_calls>>
    /\ UNCHANGED notPu

\* process_url, lines 263-273: the counts are recomputed, the record returned.
PU_Return ==
    /\ pu_pc = "finish"
    /\ pu_pc' = "done"
    /\ pu' = [pu EXCEPT !.metadata =
                  update_metadata_counts(pu.metadata, pu.text_content)]
    /\ pu_result' = Some(
          [html |-> pu.html,
           resolved_url |-> pu.final_url,
           metadata |-> update_metadata_counts(pu.metadata, pu.text_content),
           text_content |-> pu.text_content,
           screenshot_path |-> pu.screenshot_path,
           extraction_method |-> pu.extraction_method,
           render_status |-> pu.render_status])
    /\ UNCHANGED <<cfg, render_calls, ocr_calls, pu_obs>>
    /\ UNCHANGED notPu

PuNext ==
    \/ PU_Fetch
    \/ PU_SkipRender
    \/ PU_Render
    \/ PU_Screenshot
    \/ PU_SkipOcr
    \/ PU_Ocr
    \/ PU_Return

\* ===================================================== analyze_text_content

\* The fixed fallback model of the retry.
FALLBACK_MODEL == "gpt-4o-mini"

\* DEFAULT_MODEL = config.DEFAULT_MODEL or "gpt-4o-mini"
DEFAULT_MODEL(setting) == IF setting = "" THEN "gpt-4o-mini" ELSE setting

ModelSettings == {"", "gpt-4o-mini", "gpt-4o"}

\* DEFAULT_ANALYSIS
DEFAULT_ANALYSIS ==
    [category |-> None, categories |-> <<>>, topics |-> <<>>,
     entities |-> <<>>, summary |-> "No summary available.", tags |-> <<>>]

\* list(dict.fromkeys(seq)): first occurrences, in order.
RECURSIVE Dedup(_)
Dedup(seq) ==
    IF seq = <<>> THEN <<>>
    ELSE LET front == Dedup(SubSeq(seq, 1, Len(seq) - 1))
             last == seq[Len(seq)]
         IN  IF \E i \in 1..Len(front) : front[i] = last
             THEN front ELSE Append(front, last)

\* JSON documents the model can answer with: a JSON value that is not an
\* object, or an object whose fields may be missing.
ParsedOutputs ==
    [is_dict : {FALSE}, type : {None}, topics : {<<>>}, entities : {<<>>},
     summary : {None}, tags : {<<>>}]
        \cup
    [is_dict : {TRUE}, type : {None, Some("article")},
     topics : {<<>>, <<"ai", "article">>},
     entities : {<<>>, <<[name |-> "OpenAI", type |-> Some("org")]>>},
     summary : {None, Some("A summary.")},
     tags : {<<>>, <<"ml">>}]

\* _normalise_ai_output
normalise_ai_output(raw) ==
    IF ~raw.is_dict THEN DEFAULT_ANALYSIS
    ELSE [category |-> raw.type,
          categories |-> Dedup((IF IsNone(raw.type) THEN <<>> ELSE <<raw.type[1]>>)
                               \o raw.topics),
          topics |-> raw.topics,
          entities |-> raw.entities,
          summary |-> IF IsNone(raw.summary)
                      THEN DEFAULT_ANALYSIS.summary ELSE raw.summary[1],
          tags |-> raw.tags]

\* What client.chat.completions.create and the parse of its answer can do:
\* the call raises, the response has no choices, the first message is empty,
\* the content is not JSON (json.loads raises), or it parses.
ChatResponses ==
    [kind : {"raise", "no_choices", "empty_content", "bad_json"},
     parsed : {CHOOSE o \in ParsedOutputs : ~o.is_dict}]
        \cup [kind : {"parsed"}, parsed : ParsedOutputs]

\* The arguments callers pass.
AiTexts == {EmptyText, [origin |-> "direct", words |-> 1, padded |-> FALSE]}

AiModelArgs == {None, Some("gpt-4o-mini"), Some("gpt-4o")}

AiContexts == {None, Some("note")}

AiFrameInit == [text_content |-> EmptyText, model |-> None, user_context |-> None]

AiInit ==
    /\ ai_cfg \in ModelSettings
    /\ ai_pc = "idle"
    /\ ai_frame = AiFrameInit
    /\ ai_calls = <<>>
    /\ ai_result = None

\* line 55 with the test for empty text lost.
skips_analysis_never(text_content) == FALSE

\* line 55: `if not text_content`
skips_analysis(text_content) == IsEmptyText(text_content)

\* line 82: model_to_use = model or DEFAULT_MODEL
model_to_use(frame, setting) ==
    IF IsNone(frame.model) THEN DEFAULT_MODEL(setting) ELSE frame.model[1]

\* line 114: the condition of the fallback retry
retries_with_fallback(frame, setting) ==
    IsNone(frame.model) /\ model_to_use(frame, setting) # FALLBACK_MODEL

\* analyze_text_content, lines 51-57: entry, and the return for empty text.
AI_Enter ==
    /\ ai_pc = "idle"
    /\ \E text \in AiTexts, model \in AiModelArgs, ctx \in AiContexts :
        /\ ai_frame' = [text_content |-> text, model |-> model,
                        user_context |-> ctx]
        /\ IF skips_analysis(text)
           THEN ai_pc' = "done" /\ ai_result' = Some(DEFAULT_ANALYSIS)
           ELSE ai_pc' = "request" /\ ai_result' = None
    /\ UNCHANGED <<ai_cfg, ai_calls>>
    /\ UNCHANGED notAi

\* analyze_text_content, lines 59-119: one chat completion request and what
\* is done with its answer.  The retry of line 116 is a call of the function
\* itself with the same text, the fallback model and no user context.
AI_Request ==
    /\ ai_pc = "request"
    /\ \E resp \in ChatResponses :
        /\ ai_calls' = Append(ai_calls,
               [model |-> model_to_use(ai_frame, ai_cfg),
                user_context |-> ai_frame.user_context,
                text_content |-> ai_frame.text_content,
                outcome |-> resp.kind])
        /\ IF resp.kind \in {"raise", "bad_json"}
           THEN IF retries_with_fallback(ai_frame, ai_cfg)
                THEN /\ ai_frame' = [text_content |-> ai_frame.text_content,
                                     model |-> Some(FALLBACK_MODEL),
                                     user_context |-> None]
                     /\ ai_pc' = IF skips_analysis(ai_frame.text_content)
                                 THEN "done" ELSE "request"
                     /\ ai_result' = IF skips_analysis(ai_frame.text_content)
                                     THEN Some(DEFAULT_ANALYSIS) ELSE None
                ELSE /\ ai_pc' = "done"
                     /\ ai_result' = Some(DEFAULT_ANALYSIS)
                     /\ UNCHANGED ai_frame
           ELSE /\ ai_pc' = "done"
                /\ ai_result' =
                      IF resp.kind \in {"no_choices", "empty_content"}
                      THEN Some(DEFAULT_ANALYSIS)
                      ELSE Some(normalise_ai_output(resp.parsed))
                /\ UNCHANGED ai_frame
    /\ UNCHANGED ai_cfg
    /\ UNCHANGED notAi

\* The caller takes the result; the function can be invoked again.
AI_Return ==
    /\ ai_pc = "done"
    /\ ai_pc' = "idle"
    /\ ai_frame' = AiFrameInit
    /\ ai_calls' = <<>>
    /\ ai_result' = None
    /\ UNCHANGED ai_cfg
    /\ UNCHANGED notAi

AiNext ==
    \/ AI_Enter
    \/ AI_Request
    \/ AI_Return

\* ================================================================ database

\* Bounds of the persistence specifications.
MaxAddLinkCalls == 3

MaxDbOps == 2

\* COALESCE(incoming, existing)
Coalesce(incoming, existing) == IF IsNone(incoming) THEN existing ELSE incoming

\* The tables of create_tables, empty; link_seq is the SERIAL of links.
EmptyDb ==
    [users |-> {}, links |-> {}, link_seq |-> 0, link_metadata |-> {},
     link_categories |-> {}, link_entities |-> <<>>, link_sources |-> <<>>,
     link_snapshots |-> <<>>, link_embeddings |-> {},
     metadata_columns |-> TRUE]

LinkRows(d, user_id, url) ==
    {r \in d.links : r.user_id = user_id /\ r.url = url}

LinkExists(d, link_id) == \E r \in d.links : r.link_id = link_id

\* add_user, lines 308-315: the upsert statement.
sql_upsert_user(d, user_id, username) ==
    IF \E u \in d.users : u.user_id = user_id
    THEN [d EXCEPT !.users =
            {IF u.user_id = user_id
             THEN [u EXCEPT !.username = Coalesce(username, u.username)]
             ELSE u : u \in d.users}]
    ELSE [d EXCEPT !.users = d.users \cup
            {[user_id |-> user_id, username |-> username]}]

\* DO UPDATE SET column = EXCLUDED.column, without the COALESCE.
OnConflictOverwriteLink(r, title, description, domain) ==
    [r EXCEPT !.title = title, !.description = description, !.domain = domain]

\* add_link, lines 334-338: DO UPDATE SET column = COALESCE(EXCLUDED.column,
\* links.column).
OnConflictUpdateLink(r, title, description, domain) ==
    [r EXCEPT !.title = Coalesce(title, r.title),
              !.description = Coalesce(description, r.description),
              !.domain = Coalesce(domain, r.domain)]

\* add_link, lines 329-342: INSERT ... ON CONFLICT (user_id, url) DO UPDATE.
\* The SERIAL default is evaluated for the proposed row, conflict or not.
sql_upsert_link(d, user_id, url, title, description, domain) ==
    IF LinkRows(d, user_id, url) # {}
    THEN [d EXCEPT
            !.links = {IF r.user_id = user_id /\ r.url = url
                       THEN OnConflictUpdateLink(r, title, description, domain)
                       ELSE r : r \in d.links},
            !.link_seq = d.link_seq + 1]
    ELSE [d EXCEPT
            !.links = d.links \cup
               {[link_id |-> d.link_seq + 1, user_id |-> user_id, url |-> url,
                 title |-> title, description |-> description,
                 domain |-> domain, screenshot_path |-> None,
                 archived_html |-> None, ai_summary |-> None]},
            !.link_seq = d.link_seq + 1]

\* RETURNING link_id
returning_link_id(d, user_id, url) ==
    (CHOOSE r \in LinkRows(d, user_id, url) : TRUE).link_id

\* The foreign key of links.user_id.
UserExists(d, user_id) == \E u \in d.users : u.user_id = user_id

\* update_link_details, lines 361-374: only the arguments that are not None
\* become assignments.
LinkDetailColumns ==
    {"title", "description", "domain", "screenshot_path", "archived_html",
     "ai_summary"}

NoDetails ==
    [title |-> None, description |-> None, domain |-> None,
     screenshot_path |-> None, archived_html |-> None, ai_summary |-> None]

assignments_of(details) ==
    {c \in LinkDetailColumns : ~IsNone(details[c])}

\* UPDATE links SET every column, the ones passed as None included.
sql_update_link_every_column(d, link_id, details) ==
    [d EXCEPT !.links =
        {IF r.link_id = link_id
         THEN [c \in DOMAIN r |->
                 IF c \in LinkDetailColumns THEN details[c] ELSE r[c]]
         ELSE r : r \in d.links}]

\* update_link_details, lines 382-385: UPDATE links SET ... WHERE link_id.
sql_update_link(d, link_id, details) ==
    [d EXCEPT !.links =
        {IF r.link_id = link_id
         THEN [c \in DOMAIN r |->
                 IF c \in assignments_of(details) THEN details[c] ELSE r[c]]
         ELSE r : r \in d.links}]

\* add_link_metadata, lines 417-442.
sql_upsert_metadata(d, link_id, md) ==
    IF \E m \in d.link_metadata : m.link_id = link_id
    THEN [d EXCEPT !.link_metadata =
            {IF m.link_id = link_id
             THEN [m EXCEPT !.read_time = Coalesce(md.read_time, m.read_time),
                            !.word_count = Coalesce(md.word_count, m.word_count)]
             ELSE m : m \in d.link_metadata}]
    ELSE [d EXCEPT !.link_metadata = d.link_metadata \cup
            {[link_id |-> link_id, read_time |-> md.read_time,
              word_count |-> md.word_count]}]

\* add_link_categories, lines 452-459: ON CONFLICT DO NOTHING.
sql_insert_category(d, link_id, category) ==
    [d EXCEPT !.link_categories =
        d.link_categories \cup {[link_id |-> link_id, category |-> category]}]

\* add_link_entities, lines 473-480.  UNIQUE(link_id, entity_type,
\* entity_name) does not stop a second row whose entity_type is NULL.
sql_insert_entity(d, link_id, entity) ==
    LET row == [link_id |-> link_id, entity_type |-> entity.type,
                entity_name |-> entity.name]
    IN  IF ~IsNone(entity.type)
           /\ \E i \in 1..Len(d.link_entities) : d.link_entities[i] = row
        THEN d
        ELSE [d EXCEPT !.link_entities = Append(d.link_entities, row)]

\* record_link_source, lines 492-498.
sql_insert_source(d, link_id, shared_by_user_id) ==
    [d EXCEPT !.link_sources = Append(d.link_sources,
        [link_id |-> link_id, shared_by_user_id |-> shared_by_user_id,
         platform |-> "telegram"])]

\* The statement that inserts nothing.
sql_insert_snapshot_nothing(d, link_id, snapshot_url) == d

\* add_link_snapshot, lines 506-512.
sql_insert_snapshot(d, link_id, snapshot_url) ==
    [d EXCEPT !.link_snapshots = Append(d.link_snapshots,
        [link_id |-> link_id, snapshot_url |-> snapshot_url])]

\* store_link_embedding, lines 521-531: replaced wholesale on conflict.
sql_upsert_embedding(d, link_id, vector, model) ==
    [d EXCEPT !.link_embeddings =
        {e \in d.link_embeddings : e.link_id # link_id}
            \cup {[link_id |-> link_id, embedding |-> vector, model |-> model]}]

\* add_link_categories, lines 451-459: the loop over the categories.
RECURSIVE insert_categories(_, _, _)
insert_categories(d, link_id, categories) ==
    IF categories = <<>> THEN d
    ELSE insert_categories(sql_insert_category(d, link_id, Head(categories)),
                           link_id, Tail(categories))

\* add_link_entities, lines 468-480: the loop over the entities.
RECURSIVE insert_entities(_, _, _)
insert_entities(d, link_id, entities) ==
    IF entities = <<>> THEN d
    ELSE insert_entities(sql_insert_entity(d, link_id, Head(entities)),
                         link_id, Tail(entities))

\* Where a database error can strike a call: while connecting, while a
\* statement executes, or at the commit.
Faults == {"none", "connect", "execute", "commit"}

\* _cursor, lines 40-57: the work of the block becomes visible only when the
\* block and the commit went through; otherwise it is rolled back (a value
\* drawn from a sequence is not given back).
cursor_exit(before, work, fault) ==
    IF fault = "none" THEN work
    ELSE [before EXCEPT !.link_seq = work.link_seq]

\* _cursor, lines 52-55: any exception of the block or the commit is re-raised.
cursor_outcome(fault, value) ==
    IF fault = "none"
    THEN [kind |-> "returned", value |-> value]
    ELSE [kind |-> "raised", value |-> None]

\* A statement that violates a constraint or names a missing column fails
\* like any other.
EffectiveFault(fault, statement_ok) ==
    IF fault = "none" /\ ~statement_ok THEN "execute" ELSE fault

\* What the block reached before the fault: nothing when the connection
\* failed or the (only) statement failed, everything at a commit fault.
WorkDone(before, full, fault) ==
    IF fault \in {"none", "commit"} THEN full ELSE before

\* The result of a persistence call: the committed tables after it, what the
\* caller gets, and (history) what the block had written and was to write.
CallResult(before, work, full, fault, outcome) ==
    [db |-> cursor_exit(before, work, fault), outcome |-> outcome,
     fault |-> fault, work |-> work, full |-> full]

\* A call that returns before it opens a transaction.
EarlyReturn(d) ==
    CallResult(d, d, d, "none", [kind |-> "returned", value |-> None])

\* add_user, lines 305-315
add_user(d, user_id, username, fault) ==
    LET full == sql_upsert_user(d, user_id, username)
    IN  CallResult(d, WorkDone(d, full, fault), full, fault,
                   cursor_outcome(fault, None))

\* add_link, lines 318-347: psycopg2.Error of the statement is caught inside
\* the block and None returned; the commit that follows ends the aborted
\* transaction without writing.  Errors of connect and commit leave the block.
add_link(d, user_id, url, title, description, domain, fault0) ==
    LET fault == EffectiveFault(fault0, UserExists(d, user_id))
        full == sql_upsert_link(d, user_id, url, title, description, domain)
    IN  CallResult(d, WorkDone(d, full, fault), full, fault,
           IF fault = "execute"
           THEN [kind |-> "returned", value |-> None]
           ELSE cursor_outcome(fault,
                   IF fault = "none"
                   THEN Some(returning_link_id(full, user_id, url))
                   ELSE None))

\* update_link_details, lines 350-385
update_link_details(d, link_id, details, fault) ==
    IF assignments_of(details) = {}
    THEN EarlyReturn(d)
    ELSE LET full == sql_update_link(d, link_id, details)
         IN  CallResult(d, WorkDone(d, full, fault), full, fault,
                        cursor_outcome(fault, None))

\* create_tables, line 209: category VARCHAR(100)
CATEGORY_WIDTH == 100

\* A value longer than the column is wide makes the INSERT fail.
fits_category(category) == Len(category) <= CATEGORY_WIDTH

\* add_link_categories, lines 445-459: one insert per distinct category; a
\* fault of kind "execute" strikes the insert after `done` rows.
add_link_categories(d, link_id, categories, fault0, done) ==
    IF categories = <<>>
    THEN EarlyReturn(d)
    ELSE LET fault == EffectiveFault(fault0,
                         /\ LinkExists(d, link_id)
                         /\ \A i \in 1..Len(categories) :
                               fits_category(categories[i]))
             full == insert_categories(d, link_id, Dedup(categories))
             work == IF fault = "execute"
                     THEN insert_categories(d, link_id,
                                   SubSeq(Dedup(categories), 1, done))
                     ELSE WorkDone(d, full, fault)
         IN  CallResult(d, work, full, fault, cursor_outcome(fault, None))

\* add_link_entities, lines 462-480
add_link_entities(d, link_id, entities, fault0, done) ==
    IF entities = <<>>
    THEN EarlyReturn(d)
    ELSE LET fault == EffectiveFault(fault0, LinkExists(d, link_id))
             full == insert_entities(d, link_id, entities)
             work == IF fault = "execute"
                     THEN insert_entities(d, link_id,
                                   SubSeq(entities, 1, done))
                     ELSE WorkDone(d, full, fault)
         IN  CallResult(d, work, full, fault, cursor_outcome(fault, None))

\* record_link_source, lines 483-498
record_link_source(d, link_id, shared_by_user_id, fault0) ==
    LET fault == EffectiveFault(fault0, LinkExists(d, link_id))
        full == sql_insert_source(d, link_id, shared_by_user_id)
    IN  CallResult(d, WorkDone(d, full, fault), full, fault,
                   cursor_outcome(fault, None))

\* add_link_snapshot, lines 501-512
add_link_snapshot(d, link_id, snapshot_url, fault0) ==
    IF snapshot_url = ""
    THEN EarlyReturn(d)
    ELSE LET fault == EffectiveFault(fault0, LinkExists(d, link_id))
             full == sql_insert_snapshot(d, link_id, snapshot_url)
         IN  CallResult(d, WorkDone(d, full, fault), full, fault,
                        cursor_outcome(fault, None))

\* store_link_embedding, lines 515-531
store_link_embedding(d, link_id, vector, model, fault0) ==
    IF vector = <<>>
    THEN EarlyReturn(d)
    ELSE LET fault == EffectiveFault(fault0, LinkExists(d, link_id))
             full == sql_upsert_embedding(d, link_id, vector, model)
         IN  CallResult(d, WorkDone(d, full, fault), full, fault,
                        cursor_outcome(fault, None))

\* _ensure_link_metadata_columns, lines 534-543: the ALTER statements run in
\* the caller's transaction.
sql_ensure_columns(d, ensured) ==
    IF ensured THEN d ELSE [d EXCEPT !.metadata_columns = TRUE]

\* add_link_metadata, lines 403-442.  `md` is None for an empty dict.  A fault
\* of kind "execute" strikes the ALTERs (in_ensure) or the INSERT.
add_link_metadata(d, ensured, link_id, md, fault0, in_ensure) ==
    IF IsNone(md)
    THEN EarlyReturn(d) @@ [ensured |-> ensured]
    ELSE LET altered == sql_ensure_columns(d, ensured)
             fault == EffectiveFault(fault0,
                         altered.metadata_columns /\ LinkExists(d, link_id))
             full == sql_upsert_metadata(altered, link_id, md[1])
             work == IF fault = "execute"
                     THEN (IF in_ensure /\ ~ensured THEN d ELSE altered)
                     ELSE WorkDone(d, full, fault)
         IN  CallResult(d, work, full, fault, cursor_outcome(fault, None))
               @@ [ensured |-> IF fault = "connect"
                                  \/ (fault = "execute" /\ in_ensure /\ ~ensured)
                               THEN ensured ELSE TRUE]

\* ------------------------------------------------- persistence call history

DbLogInit ==
    [ops |-> 0,
     last |-> [op |-> "none", fault |-> "none",
               outcome |-> [kind |-> "returned", value |-> None],
               before |-> EmptyDb, work |-> EmptyDb, full |-> EmptyDb],
     calls |-> <<>>]

\* The history after a call.
Logged(op, before, res) ==
    [db_log EXCEPT !.ops = db_log.ops + 1,
                   !.last = [op |-> op, fault |-> res.fault,
                             outcome |-> res.outcome, before |-> before,
                             work |-> res.work, full |-> res.full]]

\* ------------------------------------------------------ persistence calls

\* Arguments the callers of the persistence layer pass.
DbUserIds == {1}

DbUsernames == {None, Some("ann")}

DbLinkIds == {1, 2}

DbDetails ==
    {NoDetails,
     [NoDetails EXCEPT !.title = Some("b")],
     [NoDetails EXCEPT !.ai_summary = Some("s"), !.archived_html = Some("h")]}

DbMetadata == {None, Some([read_time |-> Some(1), word_count |-> Some(5)])}

DbCategories == {<<>>, <<"ai", "web">>}

DbEntities ==
    {<<>>, <<[name |-> "OpenAI", type |-> Some("org")],
             [name |-> "GPT", type |-> None]>>}

DbSnapshots == {"", "https://web.archive.org/web/1/u1"}

DbVectors == {<<>>, <<1>>}

\* add_user called.
DB_AddUser ==
    /\ db_log.ops < MaxDbOps
    /\ \E user_id \in DbUserIds, username \in DbUsernames, fault \in Faults :
        LET res == add_user(db, user_id, username, fault)
        IN  /\ db' = res.db
            /\ db_log' = Logged("add_user", db, res)
    /\ UNCHANGED METADATA_SCHEMA_ENSURED
    /\ UNCHANGED notDb

\* add_link called.
DB_AddLink(UrlSet, Titles, Descriptions, Domains, FaultSet, MaxCalls) ==
    /\ db_log.ops < MaxCalls
    /\ \E user_id \in DbUserIds, url \in UrlSet, title \in Titles,
          description \in Descriptions, domain \in Domains,
          fault \in FaultSet :
        LET res == add_link(db, user_id, url, title, description, domain, fault)
        IN  /\ db' = res.db
            /\ db_log' = [Logged("add_link", db, res)
                            EXCEPT !.calls = Append(db_log.calls,
                               [user_id |-> user_id, url |-> url,
                                title |-> title, description |-> description,
                                domain |-> domain, outcome |-> res.outcome])]
    /\ UNCHANGED METADATA_SCHEMA_ENSURED
    /\ UNCHANGED notDb

\* update_link_details called.
DB_UpdateLinkDetails ==
    /\ db_log.ops < MaxDbOps
    /\ \E link_id \in DbLinkIds, details \in DbDetails, fault \in Faults :
        LET res == update_link_details(db, link_id, details, fault)
        IN  /\ db' = res.db
            /\ db_log' = Logged("update_link_details", db, res)
    /\ UNCHANGED METADATA_SCHEMA_ENSURED
    /\ UNCHANGED notDb

\* add_link_metadata called.
DB_AddLinkMetadata ==
    /\ db_log.ops < MaxDbOps
    /\ \E link_id \in DbLinkIds, md \in DbMetadata, fault \in Faults,
          in_ensure \in BOOLEAN :
        LET res == add_link_metadata(db, METADATA_SCHEMA_ENSURED, link_id, md,
                                     fault, in_ensure)
        IN  /\ db' = res.db
            /\ METADATA_SCHEMA_ENSURED' = res.ensured
            /\ db_log' = Logged("add_link_metadata", db, res)
    /\ UNCHANGED notDb

\* add_link_categories called.
DB_AddLinkCategories ==
    /\ db_log.ops < MaxDbOps
    /\ \E link_id \in DbLinkIds, categories \in DbCategories, fault \in Faults :
        \E done \in 0..(IF categories = <<>> THEN 0 ELSE Len(categories) - 1) :
        LET res == add_link_categories(db, link_id, categories, fault, done)
        IN  /\ db' = res.db
            /\ db_log' = Logged("add_link_categories", db, res)
    /\ UNCHANGED METADATA_SCHEMA_ENSURED
    /\ UNCHANGED notDb

\* add_link_entities called.
DB_AddLinkEntities ==
    /\ db_log.ops < MaxDbOps
    /\ \E link_id \in DbLinkIds, entities \in DbEntities, fault \in Faults :
        \E done \in 0..(IF entities = <<>> THEN 0 ELSE Len(entities) - 1) :
        LET res == add_link_entities(db, link_id, entities, fault, done)
        IN  /\ db' = res.db
            /\ db_log' = Logged("add_link_entities", db, res)
    /\ UNCHANGED METADATA_SCHEMA_ENSURED
    /\ UNCHANGED notDb

\* record_link_source called.
DB_RecordLinkSource ==
    /\ db_log.ops < MaxDbOps
    /\ \E link_id \in DbLinkIds, user_id \in DbUserIds, fault \in Faults :
        LET res == record_link_source(db, link_id, user_id, fault)
        IN  /\ db' = res.db
            /\ db_log' = Logged("record_link_source", db, res)
    /\ UNCHANGED METADATA_SCHEMA_ENSURED
    /\ UNCHANGED notDb

\* add_link_snapshot called.
DB_AddLinkSnapshot ==
    /\ db_log.ops < MaxDbOps
    /\ \E link_id \in DbLinkIds, snapshot_url \in DbSnapshots, fault \in Faults :
        LET res == add_link_snapshot(db, link_id, snapshot_url, fault)
        IN  /\ db' = res.db
            /\ db_log' = Logged("add_link_snapshot", db, res)
    /\ UNCHANGED METADATA_SCHEMA_ENSURED
    /\ UNCHANGED notDb

\* store_link_embedding called.
DB_StoreLinkEmbedding ==
    /\ db_log.ops < MaxDbOps
    /\ \E link_id \in DbLinkIds, vector \in DbVectors, fault \in Faults :
        LET res == store_link_embedding(db, link_id, vector, "text-embedding-3-small",
                                        fault)
        IN  /\ db' = res.db
            /\ db_log' = Logged("store_link_embedding", db, res)
    /\ UNCHANGED METADATA_SCHEMA_ENSURED
    /\ UNCHANGED notDb

\* The tables after start_command / handle_message registered the user.
DbWithUser == sql_upsert_user(EmptyDb, 1, Some("ann"))

\* ... and after one link of that user was saved.
DbWithLink == sql_upsert_link(DbWithUser, 1, "u1", Some("a"), None, None)

DbNext ==
    \/ DB_AddUser
    \/ DB_AddLink({"u1"}, {None, Some("b")}, {None}, {None}, Faults, MaxDbOps)
    \/ DB_UpdateLinkDetails
    \/ DB_AddLinkMetadata
    \/ DB_AddLinkCategories
    \/ DB_AddLinkEntities
    \/ DB_RecordLinkSource
    \/ DB_AddLinkSnapshot
    \/ DB_StoreLinkEmbedding

DbInit ==
    /\ db \in {[d EXCEPT !.metadata_columns = c] :
                  d \in {DbWithUser, DbWithLink}, c \in BOOLEAN}
    /\ METADATA_SCHEMA_ENSURED = FALSE
    /\ db_log = DbLogInit

\* Values of the three merged columns that callers of add_link supply.
UpsertTitles == {None, Some("t1"), Some("t2")}

UpsertDescriptions == {None, Some("d1")}

UpsertDomains == {None, Some("example.com")}

UpsertNext ==
    DB_AddLink({"u1"}, UpsertTitles, UpsertDescriptions, UpsertDomains,
               {"none", "execute"}, MaxAddLinkCalls)

\* Another link of the same user may be there before.
UpsertInit ==
    /\ db \in {DbWithUser,
               sql_upsert_link(DbWithUser, 1, "u2", Some("other"), None, None)}
    /\ METADATA_SCHEMA_ENSURED = FALSE
    /\ db_log = DbLogInit

\* ============================================================= handle_urls

\* The tasks that run handle_urls at the same time, one shared URL each.
Tasks == {"a", "b"}

\* handle_urls, lines 219-220 and the locals of lines 252-283.
HuLocalsInit(user_note) ==
    [pc |-> "process_url", user_id |-> 1, url |-> "u1",
     user_note |-> user_note, page |-> None, link_id |-> None,
     ai_analysis |-> None, warning |-> None, results |-> <<>>,
     replied |-> FALSE]

\* The history of a task: what process_url did, the tables when the task
\* started on its URL, and the calls it made, in order.
HuObsInit ==
    [p \in Tasks |-> [outcome |-> "pending", db_start |-> EmptyDb, calls |-> <<>>]]

\* The history after task p called `op` for `link_id`.
HuCalled(p, op, link_id) ==
    [hu_obs EXCEPT ![p].calls = Append(hu_obs[p].calls,
                                       [op |-> op, link_id |-> link_id])]

\* _extract_user_note: the message without its URLs, "" when nothing is left.
UserNotes == {"", "note"}

\* A value process_url returns for the shared URL (lines 252-256 read these
\* keys of it).
HuPage(title, description, screenshot_path, text) ==
    [resolved_url |-> "u1",
     metadata |-> [title |-> title, description |-> description,
                   domain |-> Some("example.com"),
                   word_count |-> Some(WordCount(text)),
                   read_time |-> ReadTime(WordCount(text))],
     screenshot_path |-> screenshot_path,
     html |-> Some("<html>"),
     text_content |-> text,
     extraction_method |-> IF IsNone(screenshot_path) THEN "direct" ELSE "renderer"]

BodyText == [origin |-> "direct", words |-> WORDS_PER_MINUTE, padded |-> FALSE]

\* What process_url can do: raise, return None, or return a page.
ProcessUrlOutcomes(Pages) ==
    {[kind |-> "raise", page |-> None], [kind |-> "none", page |-> None]}
        \cup {[kind |-> "page", page |-> Some(pg)] : pg \in Pages}

\* `x or None` of a string.
OrNone(str) == IF str = "" THEN None ELSE Some(str)

\* line 254: metadata.get("description") or (user_note or None)
link_description(page, user_note) ==
    IF ~IsNone(page.metadata.description)
    THEN page.metadata.description ELSE OrNone(user_note)

\* lines 308 and 315: the summary stored when the page has no text.
fallback_summary(page, user_note) ==
    IF user_note # ""
    THEN "Saved with your description: " \o user_note
    ELSE IF ~IsNone(page.metadata.description)
         THEN page.metadata.description[1]
         ELSE "Link saved. Next time, add a description to make it easier to find!"

\* except Exception of line 357: the failure becomes an error result.
HuFailed(task) ==
    [task EXCEPT !.results = Append(task.results, "error"), !.pc = "reply"]

\* lines 225-250: process_url, and the branch taken when it returns nothing.
HU_ProcessUrl(p, Pages) ==
    /\ hu[p].pc = "process_url"
    /\ \E out \in ProcessUrlOutcomes(Pages) :
        /\ hu' = [hu EXCEPT ![p] =
            IF out.kind = "raise" THEN HuFailed(hu[p])
            ELSE IF out.kind = "none"
            THEN [hu[p] EXCEPT !.results = Append(hu[p].results, "error"),
                               !.pc = IF hu[p].user_note # ""
                                      THEN "context_add_link" ELSE "reply"]
            ELSE [hu[p] EXCEPT !.page = out.page, !.pc = "add_link"]]
        /\ hu_obs' = [HuCalled(p, "process_url", None) EXCEPT
                         ![p].outcome = out.kind, ![p].db_start = db]
    /\ UNCHANGED <<db, METADATA_SCHEMA_ENSURED>>
    /\ UNCHANGED notHu

\* lines 239-240: the link is saved under the URL as shared, with the note
\* as its description.  The except of line 248 swallows any failure.
HU_ContextAddLink(p, FaultSet) ==
    /\ hu[p].pc = "context_add_link"
    /\ \E fault \in FaultSet :
        LET res == add_link(db, hu[p].user_id, hu[p].url, None,
                            Some(hu[p].user_note), None, fault)
        IN  /\ db' = res.db
            /\ hu' = [hu EXCEPT ![p] =
                 IF res.outcome.kind = "raised" \/ IsNone(res.outcome.value)
                 THEN [hu[p] EXCEPT !.pc = "reply"]
                 ELSE [hu[p] EXCEPT !.link_id = res.outcome.value,
                                    !.pc = "context_update"]]
    /\ UNCHANGED METADATA_SCHEMA_ENSURED
    /\ hu_obs' = HuCalled(p, "add_link", None)
    /\ UNCHANGED notHu

\* line 241
HU_ContextUpdate(p, FaultSet) ==
    /\ hu[p].pc = "context_update"
    /\ \E fault \in FaultSet :
        LET res == update_link_details(db, hu[p].link_id[1],
                      [NoDetails EXCEPT !.ai_summary =
                          Some("Saved with user context: " \o hu[p].user_note)],
                      fault)
        IN  /\ db' = res.db
            /\ hu' = [hu EXCEPT ![p].pc =
                 IF res.outcome.kind = "raised" THEN "reply" ELSE "context_source"]
    /\ UNCHANGED METADATA_SCHEMA_ENSURED
    /\ hu_obs' = HuCalled(p, "update_link_details", hu[p].link_id)
    /\ UNCHANGED notHu

\* lines 242-247
HU_ContextSource(p, FaultSet) ==
    /\ hu[p].pc = "context_source"
    /\ \E fault \in FaultSet :
        LET res == record_link_source(db, hu[p].link_id[1], hu[p].user_id, fault)
        IN  /\ db' = res.db
            /\ hu' = [hu EXCEPT ![p] =
                 IF res.outcome.kind = "raised"
                 THEN [hu[p] EXCEPT !.pc = "reply"]
                 ELSE [hu[p] EXCEPT
                         !.results = Append(hu[p].results, "saved_context_only"),
                         !.pc = "reply"]]
    /\ UNCHANGED METADATA_SCHEMA_ENSURED
    /\ hu_obs' = HuCalled(p, "record_link_source", hu[p].link_id)
    /\ UNCHANGED notHu

\* lines 257-267: the link is saved under the resolved URL.
HU_AddLink(p, FaultSet) ==
    /\ hu[p].pc = "add_link"
    /\ \E fault \in FaultSet :
        LET page == hu[p].page[1]
            res == add_link(db, hu[p].user_id, page.resolved_url,
                            page.metadata.title,
                            link_description(page, hu[p].user_note),
                            page.metadata.domain, fault)
        IN  /\ db' = res.db
            /\ hu' = [hu EXCEPT ![p] =
                 IF res.outcome.kind = "raised" \/ IsNone(res.outcome.value)
                 THEN HuFailed(hu[p])
                 ELSE [hu[p] EXCEPT !.link_id = res.outcome.value,
                                    !.pc = "update_details"]]
    /\ UNCHANGED METADATA_SCHEMA_ENSURED
    /\ hu_obs' = HuCalled(p, "add_link", None)
    /\ UNCHANGED notHu

\* lines 269-276
HU_UpdateDetails(p, FaultSet) ==
    /\ hu[p].pc = "update_details"
    /\ \E fault \in FaultSet :
        LET page == hu[p].page[1]
            res == update_link_details(db, hu[p].link_id[1],
                      [NoDetails EXCEPT
                          !.title = page.metadata.title,
                          !.description = link_description(page, hu[p].user_note),
                          !.domain = page.metadata.domain,
                          !.screenshot_path = page.screenshot_path,
                          !.archived_html = page.html],
                      fault)
        IN  /\ db' = res.db
            /\ hu' = [hu EXCEPT ![p] =
                 IF res.outcome.kind = "raised" THEN HuFailed(hu[p])
                 ELSE [hu[p] EXCEPT !.pc = "add_metadata"]]
    /\ UNCHANGED METADATA_SCHEMA_ENSURED
    /\ hu_obs' = HuCalled(p, "update_link_details", hu[p].link_id)
    /\ UNCHANGED notHu

\* lines 277-285: the metadata is stored; the stripped text decides the branch.
HU_AddMetadata(p, FaultSet) ==
    /\ hu[p].pc = "add_metadata"
    /\ \E fault \in FaultSet, in_ensure \in BOOLEAN :
        LET page == hu[p].page[1]
            res == add_link_metadata(db, METADATA_SCHEMA_ENSURED, hu[p].link_id[1],
                      Some([read_time |-> page.metadata.read_time,
                            word_count |-> page.metadata.word_count]),
                      fault, in_ensure)
        IN  /\ db' = res.db
            /\ METADATA_SCHEMA_ENSURED' = res.ensured
            /\ hu' = [hu EXCEPT ![p] =
                 IF res.outcome.kind = "raised" THEN HuFailed(hu[p])
                 ELSE [hu[p] EXCEPT !.pc =
                         IF IsEmptyText(Strip(page.text_content))
                         THEN "fallback_summary" ELSE "analyze"]]
    /\ hu_obs' = HuCalled(p, "add_link_metadata", hu[p].link_id)
    /\ UNCHANGED notHu

\* What analyze_text_content hands back for a text that is not empty.
AnalysisResults ==
    {DEFAULT_ANALYSIS,
     normalise_ai_output([is_dict |-> TRUE, type |-> Some("article"),
         topics |-> <<"ai", "article">>,
         entities |-> <<[name |-> "OpenAI", type |-> Some("org")],
                        [name |-> "GPT", type |-> None]>>,
         summary |-> Some("A summary."), tags |-> <<"ml">>])}

\* line 286: await analyze_text_content(text_content, user_context=user_note)
HU_Analyze(p, Analyses) ==
    /\ hu[p].pc = "analyze"
    /\ \E analysis \in Analyses :
        hu' = [hu EXCEPT ![p].ai_analysis = Some(analysis),
                         ![p].pc = "categories"]
    /\ UNCHANGED <<db, METADATA_SCHEMA_ENSURED>>
    /\ hu_obs' = HuCalled(p, "analyze_text_content", None)
    /\ UNCHANGED notHu

\* lines 288-290
HU_AddCategories(p, FaultSet) ==
    /\ hu[p].pc = "categories"
    /\ LET categories == hu[p].ai_analysis[1].categories
       IN  \E fault \in FaultSet :
           \E done \in 0..(IF categories = <<>> THEN 0 ELSE Len(categories) - 1) :
           LET res == add_link_categories(db, hu[p].link_id[1], categories,
                                          fault, done)
           IN  /\ db' = res.db
               /\ hu' = [hu EXCEPT ![p] =
                    IF res.outcome.kind = "raised" THEN HuFailed(hu[p])
                    ELSE [hu[p] EXCEPT !.pc = "entities"]]
    /\ UNCHANGED METADATA_SCHEMA_ENSURED
    /\ hu_obs' = IF hu[p].ai_analysis[1].categories = <<>> THEN hu_obs
                  ELSE HuCalled(p, "add_link_categories", hu[p].link_id)
    /\ UNCHANGED notHu

\* lines 292-294
HU_AddEntities(p, FaultSet) ==
    /\ hu[p].pc = "entities"
    /\ LET entities == hu[p].ai_analysis[1].entities
       IN  \E fault \in FaultSet :
           \E done \in 0..(IF entities = <<>> THEN 0 ELSE Len(entities) - 1) :
           LET res == add_link_entities(db, hu[p].link_id[1], entities,
                                        fault, done)
           IN  /\ db' = res.db
               /\ hu' = [hu EXCEPT ![p] =
                    IF res.outcome.kind = "raised" THEN HuFailed(hu[p])
                    ELSE [hu[p] EXCEPT !.pc = "summary"]]
    /\ UNCHANGED METADATA_SCHEMA_ENSURED
    /\ hu_obs' = IF hu[p].ai_analysis[1].entities = <<>> THEN hu_obs
                  ELSE HuCalled(p, "add_link_entities", hu[p].link_id)
    /\ UNCHANGED notHu

\* line 296
HU_UpdateSummary(p, FaultSet) ==
    /\ hu[p].pc = "summary"
    /\ \E fault \in FaultSet :
        LET res == update_link_details(db, hu[p].link_id[1],
                      [NoDetails EXCEPT
                          !.ai_summary = Some(hu[p].ai_analysis[1].summary)],
                      fault)
        IN  /\ db' = res.db
            /\ hu' = [hu EXCEPT ![p] =
                 IF res.outcome.kind = "raised" THEN HuFailed(hu[p])
                 ELSE [hu[p] EXCEPT !.pc = "embedding"]]
    /\ UNCHANGED METADATA_SCHEMA_ENSURED
    /\ hu_obs' = HuCalled(p, "update_link_details", hu[p].link_id)
    /\ UNCHANGED notHu

\* generate_embedding returns None (<<>>) or a vector.
EmbeddingVectors == {<<>>, <<1>>}

\* lines 298-304: await generate_embedding, then the vector is stored.
HU_StoreEmbedding(p, FaultSet) ==
    /\ hu[p].pc = "embedding"
    /\ \E vector \in EmbeddingVectors, fault \in FaultSet :
        LET res == store_link_embedding(db, hu[p].link_id[1], vector,
                                        "text-embedding-3-small", fault)
        IN  /\ db' = res.db
            /\ hu' = [hu EXCEPT ![p] =
                 IF res.outcome.kind = "raised" THEN HuFailed(hu[p])
                 ELSE [hu[p] EXCEPT !.pc = "source"]]
            /\ hu_obs' = [hu_obs EXCEPT ![p].calls = hu_obs[p].calls
                  \o <<[op |-> "generate_embedding", link_id |-> None]>>
                  \o (IF vector = <<>> THEN <<>>
                      ELSE <<[op |-> "store_link_embedding",
                              link_id |-> hu[p].link_id]>>)]
    /\ UNCHANGED METADATA_SCHEMA_ENSURED
    /\ UNCHANGED notHu

\* lines 310-320: the warning of a result whose page had no text; it says
\* that the page content could not be read.
unread_warning(user_note) ==
    IF user_note # ""
    THEN Some("I couldn't read the page content, but I've saved your link with the context you provided.")
    ELSE Some("I couldn't read the page content (it might require login or have heavy JavaScript).")

\* lines 305-320: no text was extracted.
HU_FallbackSummary(p, FaultSet) ==
    /\ hu[p].pc = "fallback_summary"
    /\ \E fault \in FaultSet :
        LET res == update_link_details(db, hu[p].link_id[1],
                      [NoDetails EXCEPT !.ai_summary =
                          Some(fallback_summary(hu[p].page[1], hu[p].user_note))],
                      fault)
        IN  /\ db' = res.db
            /\ hu' = [hu EXCEPT ![p] =
                 IF res.outcome.kind = "raised" THEN HuFailed(hu[p])
                 ELSE [hu[p] EXCEPT !.warning = unread_warning(hu[p].user_note),
                                    !.pc = "source"]]
    /\ UNCHANGED METADATA_SCHEMA_ENSURED
    /\ hu_obs' = HuCalled(p, "update_link_details", hu[p].link_id)
    /\ UNCHANGED notHu

\* lines 322-356
HU_RecordSource(p, FaultSet) ==
    /\ hu[p].pc = "source"
    /\ \E fault \in FaultSet :
        LET res == record_link_source(db, hu[p].link_id[1], hu[p].user_id, fault)
        IN  /\ db' = res.db
            /\ hu' = [hu EXCEPT ![p] =
                 IF res.outcome.kind = "raised" THEN HuFailed(hu[p])
                 ELSE [hu[p] EXCEPT !.results = Append(hu[p].results, "ok"),
                                    !.pc = "reply"]]
    /\ UNCHANGED METADATA_SCHEMA_ENSURED
    /\ hu_obs' = HuCalled(p, "record_link_source", hu[p].link_id)
    /\ UNCHANGED notHu

\* lines 361-402: the results are rendered and sent.
HU_Reply(p) ==
    /\ hu[p].pc = "reply"
    /\ hu' = [hu EXCEPT ![p].replied = TRUE, ![p].pc = "done"]
    /\ UNCHANGED <<db, METADATA_SCHEMA_ENSURED>>
    /\ hu_obs' = HuCalled(p, "reply_text", None)
    /\ UNCHANGED notHu

\* Two tasks save the same URL of the same user at the same time; no
\* database error strikes.
SavePages ==
    {HuPage(Some("t1"), Some("d1"), Some("shot.png"), BodyText),
     HuPage(Some("t2"), None, None, BodyText),
     HuPage(None, None, None, EmptyText)}

SaveNext ==
    \E p \in Tasks :
        \/ HU_ProcessUrl(p, SavePages)
        \/ HU_ContextAddLink(p, {"none"})
        \/ HU_ContextUpdate(p, {"none"})
        \/ HU_ContextSource(p, {"none"})
        \/ HU_AddLink(p, {"none"})
        \/ HU_UpdateDetails(p, {"none"})
        \/ HU_AddMetadata(p, {"none"})
        \/ HU_Analyze(p, AnalysisResults)
        \/ HU_AddCategories(p, {"none"})
        \/ HU_AddEntities(p, {"none"})
        \/ HU_UpdateSummary(p, {"none"})
        \/ HU_StoreEmbedding(p, {"none"})
        \/ HU_FallbackSummary(p, {"none"})
        \/ HU_RecordSource(p, {"none"})
        \/ HU_Reply(p)

\* handle_message registered the user before it called handle_urls.
SaveInit ==
    /\ hu \in [Tasks -> {HuLocalsInit(note) : note \in UserNotes}]
    /\ hu_obs = HuObsInit
    /\ db = DbWithUser
    /\ METADATA_SCHEMA_ENSURED = FALSE
    /\ db_log = DbLogInit

\* One task handles a message with one URL; no database error strikes.  The
\* link may have been saved before.
DbSavedBefore ==
    sql_insert_source(
        sql_update_link(
            sql_upsert_link(DbWithUser, 1, "u1", Some("t0"), Some("d0"),
                            Some("example.com")),
            1, [NoDetails EXCEPT !.ai_summary = Some("An earlier summary.")]),
        1, 1)

SharePages ==
    SavePages \cup
    {HuPage(Some("t1"), None, None,
            [origin |-> "direct", words |-> 0, padded |-> TRUE])}

\* A topic the model answered with that is longer than 100 characters.
LongTopic ==
    "how the borrow checker of the rust compiler enforces ownership and lifetimes across threads and async tasks"

\* What analyze_text_content can hand back: also an analysis with such a topic.
ShareAnalyses ==
    AnalysisResults \cup
    {normalise_ai_output([is_dict |-> TRUE, type |-> None,
         topics |-> <<"rust", LongTopic>>,
         entities |-> <<[name |-> "Rust", type |-> Some("language")]>>,
         summary |-> Some("A summary."), tags |-> <<>>])}

ShareNext ==
    \/ HU_ProcessUrl("a", SharePages)
    \/ HU_ContextAddLink("a", {"none"})
    \/ HU_ContextUpdate("a", {"none"})
    \/ HU_ContextSource("a", {"none"})
    \/ HU_AddLink("a", {"none"})
    \/ HU_UpdateDetails("a", {"none"})
    \/ HU_AddMetadata("a", {"none"})
    \/ HU_Analyze("a", ShareAnalyses)
    \/ HU_AddCategories("a", {"none"})
    \/ HU_AddEntities("a", {"none"})
    \/ HU_UpdateSummary("a", {"none"})
    \/ HU_StoreEmbedding("a", {"none"})
    \/ HU_FallbackSummary("a", {"none"})
    \/ HU_RecordSource("a", {"none"})
    \/ HU_Reply("a")

ShareInit ==
    /\ hu \in {[p \in Tasks |-> HuLocalsInit(IF p = "a" THEN note ELSE "")] :
                  note \in UserNotes}
    /\ hu_obs = HuObsInit
    /\ db \in {DbWithUser, DbSavedBefore}
    /\ METADATA_SCHEMA_ENSURED \in BOOLEAN
    /\ db_log = DbLogInit

\* ================================================================= strings

\* The retriever inspects its texts character by character (substring tests,
\* regular expressions), so they are modelled as sequences of characters.
UpperLetters ==
    <<"A", "B", "C", "D", "E", "F", "G", "H", "I", "J", "K", "L", "M",
      "N", "O", "P", "Q", "R", "S", "T", "U", "V", "W", "X", "Y", "Z">>

LowerLetters ==
    <<"a", "b", "c", "d", "e", "f", "g", "h", "i", "j", "k", "l", "m",
      "n", "o", "p", "q", "r", "s", "t", "u", "v", "w", "x", "y", "z">>

Digits == <<"0", "1", "2", "3", "4", "5", "6", "7", "8", "9">>

Range(seq) == {seq[i] : i \in 1..Len(seq)}

IsDigit(c) == c \in Range(Digits)

IsAlnum(c) == c \in Range(UpperLetters) \cup Range(LowerLetters) \cup Range(Digits)

\* \s
IsSpace(c) == c \in {" ", "\t", "\n"}

\* str.lower() of one character
LowerChar(c) ==
    IF c \in Range(UpperLetters)
    THEN LowerLetters[CHOOSE i \in 1..26 : UpperLetters[i] = c]
    ELSE c

\* str.lower()
Lower(s) == [i \in 1..Len(s) |-> LowerChar(s[i])]

\* str.strip()
RECURSIVE StripStr(_)
StripStr(s) ==
    IF s = <<>> THEN s
    ELSE IF IsSpace(s[1]) THEN StripStr(Tail(s))
    ELSE IF IsSpace(s[Len(s)]) THEN StripStr(SubSeq(s, 1, Len(s) - 1))
    ELSE s

\* s[i:i+len(sub)] == sub
MatchesAt(s, i, sub) ==
    /\ i + Len(sub) - 1 <= Len(s)
    /\ SubSeq(s, i, i + Len(sub) - 1) = sub

\* sub in s
Contains(s, sub) == \E i \in 1..(Len(s) + 1) : MatchesAt(s, i, sub)

\* The end of the longest run of characters of `Class` that starts at i
\* (i - 1 when s[i] is not in the class).
RECURSIVE RunEnd(_, _, _)
RunEnd(s, i, Class) ==
    IF i <= Len(s) /\ s[i] \in Class THEN RunEnd(s, i + 1, Class) ELSE i - 1

\* The characters of [A-Za-z0-9']
WordChars ==
    Range(UpperLetters) \cup Range(LowerLetters) \cup Range(Digits) \cup {"'"}

\* re.findall(r"[A-Za-z0-9']+", s), scanning from position i
RECURSIVE FindWordsFrom(_, _)
FindWordsFrom(s, i) ==
    IF i > Len(s) THEN <<>>
    ELSE IF s[i] \in WordChars
         THEN LET e == RunEnd(s, i, WordChars)
              IN  <<SubSeq(s, i, e)>> \o FindWordsFrom(s, e + 1)
         ELSE FindWordsFrom(s, i + 1)

FindWords(s) == FindWordsFrom(s, 1)

\* sep.join(items)
RECURSIVE Join(_, _)
Join(items, sep) ==
    IF items = <<>> THEN <<>>
    ELSE IF Len(items) = 1 THEN items[1]
    ELSE items[1] \o sep \o Join(Tail(items), sep)

\* int(digits)
RECURSIVE ToInt(_)
ToInt(digits) ==
    IF digits = <<>> THEN 0
    ELSE 10 * ToInt(SubSeq(digits, 1, Len(digits) - 1))
         + ((CHOOSE i \in 1..10 : Digits[i] = digits[Len(digits)]) - 1)

\* STOP_WORDS
STOP_WORDS ==
    {<<"t", "h", "e">>, <<"a", "n", "d">>, <<"a", "b", "o", "u", "t">>,
     <<"p", "l", "e", "a", "s", "e">>, <<"s", "h", "o", "w">>,
     <<"f", "i", "n", "d">>, <<"m", "e">>, <<"f", "o", "r">>,
     <<"t", "h", "a", "t">>, <<"t", "h", "i", "s">>,
     <<"w", "h", "a", "t">>, <<"w", "a", "s">>, <<"w", "e", "r", "e">>,
     <<"i", "s">>, <<"a", "r", "e">>, <<"b", "e">>, <<"a">>, <<"a", "n">>,
     <<"t", "o">>, <<"o", "n">>, <<"i", "n">>}

\* TEMPORAL_TOKENS
TEMPORAL_TOKENS ==
    {<<"t", "o", "d", "a", "y">>,
     <<"y", "e", "s", "t", "e", "r", "d", "a", "y">>,
     <<"t", "o", "n", "i", "g", "h", "t">>, <<"w", "e", "e", "k">>,
     <<"m", "o", "n", "t", "h">>, <<"y", "e", "a", "r">>,
     <<"r", "e", "c", "e", "n", "t">>, <<"l", "a", "t", "e", "s", "t">>,
     <<"l", "a", "s", "t">>}

\* =============================================================== retrieval

\* "recent"
S_recent == <<"r", "e", "c", "e", "n", "t">>

\* "latest"
S_latest == <<"l", "a", "t", "e", "s", "t">>

\* "today"
S_today == <<"t", "o", "d", "a", "y">>

\* "yesterday"
S_yesterday == <<"y", "e", "s", "t", "e", "r", "d", "a", "y">>

\* "last week"
S_last_week == <<"l", "a", "s", "t", " ", "w", "e", "e", "k">>

\* "last month"
S_last_month == <<"l", "a", "s", "t", " ", "m", "o", "n", "t", "h">>

\* "last year"
S_last_year == <<"l", "a", "s", "t", " ", "y", "e", "a", "r">>

\* "last "
S_last_ == <<"l", "a", "s", "t", " ">>

\* " days"
S__days == <<" ", "d", "a", "y", "s">>

\* " weeks"
S__weeks == <<" ", "w", "e", "e", "k", "s">>

\* Hours in a day; timestamps count hours.
HOURS_PER_DAY == 24

\* _clean_query_terms
clean_query_terms(query) ==
    Join(SelectSeq(FindWords(Lower(query)),
                   LAMBDA token : token \notin STOP_WORDS
                                  /\ token \notin TEMPORAL_TOKENS),
         <<" ">>)

\* The alternatives of the prefix group of _extract_entities, in order.
EntityPrefixes ==
    <<<<"f", "r", "o", "m">>, <<"b", "y">>, <<"w", "i", "t", "h">>, <<"s", "h", "a", "r", "e", "d", " ", "b", "y">>>>

\* [A-Za-z0-9_\-]
EntityChars == Range(UpperLetters) \cup Range(LowerLetters) \cup Range(Digits)
                  \cup {"_", "-"}

\* The match of (?:from|by|with|shared by)\s+([A-Za-z0-9][A-Za-z0-9_\-]*) that
\* starts at position i, case-insensitively: <<>> or <<[first, last]>> of the
\* captured token.
EntityMatchAt(s, i) ==
    LET Hit(k) ==
            LET after == i + Len(EntityPrefixes[k])
                spaces == RunEnd(s, after, {" ", "\t", "\n"})
            IN  IF /\ MatchesAt(Lower(s), i, EntityPrefixes[k])
                   /\ spaces >= after
                   /\ spaces + 1 <= Len(s)
                   /\ IsAlnum(s[spaces + 1])
                THEN <<[first |-> spaces + 1,
                        last |-> RunEnd(s, spaces + 1, EntityChars)]>>
                ELSE <<>>
        hits == {k \in 1..Len(EntityPrefixes) : Hit(k) # <<>>}
    IN  IF hits = {} THEN <<>>
        ELSE Hit(CHOOSE k \in hits : \A j \in hits : k <= j)

\* re.findall from position i: leftmost matches that do not overlap.
RECURSIVE ExtractEntitiesFrom(_, _)
ExtractEntitiesFrom(s, i) ==
    IF i > Len(s) THEN <<>>
    ELSE LET m == EntityMatchAt(s, i)
         IN  IF m = <<>> THEN ExtractEntitiesFrom(s, i + 1)
             ELSE <<SubSeq(s, m[1].first, m[1].last)>>
                     \o ExtractEntitiesFrom(s, m[1].last + 1)

\* _extract_entities: the original casing is kept.
extract_entities(query) == ExtractEntitiesFrom(query, 1)

\* re.search(r"last (\d+) <unit>", s): the number of the leftmost match, or
\* <<>>.
LastNumberOf(s, unit) ==
    LET Number(i) ==
            LET e == RunEnd(s, i + Len(S_last_), Range(Digits))
            IN  IF /\ MatchesAt(s, i, S_last_)
                   /\ e >= i + Len(S_last_)
                   /\ MatchesAt(s, e + 1, unit)
                THEN <<ToInt(SubSeq(s, i + Len(S_last_), e))>>
                ELSE <<>>
        starts == {i \in 1..Len(s) : Number(i) # <<>>}
    IN  IF starts = {} THEN <<>>
        ELSE Number(CHOOSE i \in starts : \A j \in starts : i <= j)

\* datetime(now.year, now.month, now.day)
Midnight(now) == now - (now % HOURS_PER_DAY)

\* _extract_time_filter
extract_time_filter(query_lower, now) ==
    IF Contains(query_lower, S_today) THEN Some(Midnight(now))
    ELSE IF Contains(query_lower, S_yesterday)
    THEN Some(Midnight(now) - HOURS_PER_DAY)
    ELSE IF Contains(query_lower, S_last_week) THEN Some(now - 7 * HOURS_PER_DAY)
    ELSE IF Contains(query_lower, S_last_month) THEN Some(now - 30 * HOURS_PER_DAY)
    ELSE IF Contains(query_lower, S_last_year) THEN Some(now - 365 * HOURS_PER_DAY)
    ELSE IF LastNumberOf(query_lower, S__days) # <<>>
    THEN Some(now - LastNumberOf(query_lower, S__days)[1] * HOURS_PER_DAY)
    ELSE IF LastNumberOf(query_lower, S__weeks) # <<>>
    THEN Some(now - LastNumberOf(query_lower, S__weeks)[1] * 7 * HOURS_PER_DAY)
    ELSE None

\* The code point order of the characters a lowercased token can have.
CharOrder == <<"'">> \o Digits \o LowerLetters

CharRank(c) == CHOOSE i \in 1..Len(CharOrder) : CharOrder[i] = c

\* x < y for two tokens
RECURSIVE TokenLess(_, _)
TokenLess(x, y) ==
    IF y = <<>> THEN FALSE
    ELSE IF x = <<>> THEN TRUE
    ELSE IF x[1] = y[1] THEN TokenLess(Tail(x), Tail(y))
    ELSE CharRank(x[1]) < CharRank(y[1])

\* key(x) < key(y) for the key (-len(x), x)
MeaningfulBefore(x, y) ==
    Len(x) > Len(y) \/ (Len(x) = Len(y) /\ TokenLess(x, y))

\* list.sort(key=...): a stable insertion of each item into the sorted rest.
RECURSIVE SortMeaningful(_)
SortMeaningful(items) ==
    IF items = <<>> THEN <<>>
    ELSE LET rest == SortMeaningful(SubSeq(items, 1, Len(items) - 1))
             x == items[Len(items)]
             k == Cardinality({i \in 1..Len(rest) : ~MeaningfulBefore(x, rest[i])})
         IN  SubSeq(rest, 1, k) \o <<x>> \o SubSeq(rest, k + 1, Len(rest))

\* _extract_meaningful_words
extract_meaningful_words(query) ==
    SortMeaningful(
        SelectSeq(FindWords(Lower(query)),
                  LAMBDA token : /\ token \notin STOP_WORDS
                                 /\ token \notin TEMPORAL_TOKENS
                                 /\ Len(token) >= 3))

\* lines 207-212: +5 for every entity found in the title or the summary.
RECURSIVE entity_bonus(_, _, _)
entity_bonus(entities, title, summary) ==
    IF entities = <<>> THEN 0
    ELSE (IF Contains(title, Lower(entities[1]))
             \/ Contains(summary, Lower(entities[1]))
          THEN 5 ELSE 0)
         + entity_bonus(Tail(entities), title, summary)

\* The score with a title match weighted like a summary match.
score_result_title_weight_two(result, query, entities) ==
    LET query_lower == Lower(query)
        query_words == Range(FindWords(query_lower))
        title == Lower(result.title)
        summary == Lower(IF result.ai_summary # <<>> THEN result.ai_summary
                         ELSE result.description)
        category_text == Lower(Join(result.categories, <<" ">>))
    IN  2 * Cardinality(query_words \cap Range(FindWords(title)))
        + 2 * Cardinality(query_words \cap Range(FindWords(summary)))
        + 2 * Cardinality(query_words \cap Range(FindWords(category_text)))
        + entity_bonus(entities, title, summary)
        + (IF Contains(title, query_lower) \/ Contains(summary, query_lower)
           THEN 10 ELSE 0)

\* _score_search_results, lines 186-217: the score of one result.
score_result(result, query, entities) ==
    LET query_lower == Lower(query)
        query_words == Range(FindWords(query_lower))
        title == Lower(result.title)
        after_title ==
            IF title # <<>>
            THEN 3 * Cardinality(query_words \cap Range(FindWords(title)))
            ELSE 0
        summary == Lower(IF result.ai_summary # <<>> THEN result.ai_summary
                         ELSE result.description)
        after_summary ==
            IF summary # <<>>
            THEN after_title
                 + 2 * Cardinality(query_words \cap Range(FindWords(summary)))
            ELSE after_title
        category_text == Lower(Join(result.categories, <<" ">>))
        after_categories ==
            IF category_text # <<>>
            THEN after_summary
                 + 2 * Cardinality(query_words \cap Range(FindWords(category_text)))
            ELSE after_summary
        after_entities == after_categories + entity_bonus(entities, title, summary)
    IN  IF Contains(title, query_lower) \/ Contains(summary, query_lower)
        THEN after_entities + 10
        ELSE after_entities

\* scored_results.sort(key=lambda x: -x[0]): stable, highest score first.
RECURSIVE sort_by_score(_)
sort_by_score(scored) ==
    IF scored = <<>> THEN <<>>
    ELSE LET rest == sort_by_score(SubSeq(scored, 1, Len(scored) - 1))
             x == scored[Len(scored)]
             k == Cardinality({i \in 1..Len(rest) : rest[i].score >= x.score})
         IN  SubSeq(rest, 1, k) \o <<x>> \o SubSeq(rest, k + 1, Len(rest))

\* The results left in discovery order.
score_search_results_unsorted(results, query, entities) == results

\* _score_search_results
score_search_results(results, query, entities) ==
    LET scored == [i \in 1..Len(results) |->
                     [score |-> score_result(results[i], query, entities),
                      result |-> results[i]]]
        sorted == sort_by_score(scored)
    IN  [i \in 1..Len(sorted) |-> sorted[i].result]

\* The filter that also drops a link created exactly at the bound.
time_filter_after_bound(search_results, window_start) ==
    IF IsNone(window_start) THEN search_results
    ELSE SelectSeq(search_results,
                   LAMBDA link : /\ ~IsNone(link.created_at)
                                 /\ link.created_at[1] > window_start[1])

\* lines 95-100: the temporal filter.
time_filter(search_results, window_start) ==
    IF IsNone(window_start) THEN search_results
    ELSE SelectSeq(search_results,
                   LAMBDA link : /\ ~IsNone(link.created_at)
                                 /\ link.created_at[1] >= window_start[1])

\* lines 82-83: the results whose URL is not among those found so far.
unique_new(search_results, more) ==
    LET existing_urls == {search_results[i].url : i \in 1..Len(search_results)}
    IN  SelectSeq(more, LAMBDA r : r.url \notin existing_urls)

\* results[:n]
Take(results, n) == SubSeq(results, 1, IF Len(results) < n THEN Len(results) ELSE n)

\* ------------------------------------------------------------ sample data

\* The clock of the run, in hours: 13:00 on some day.
NOW == 24013

\* "Intro to Rust Ownership"
T_intro ==
    <<"I", "n", "t", "r", "o", " ", "t", "o", " ", "R", "u", "s", "t", " ",
      "O", "w", "n", "e", "r", "s", "h", "i", "p">>

\* "Cooking Pasta"
T_pasta ==
    <<"C", "o", "o", "k", "i", "n", "g", " ", "P", "a", "s", "t", "a">>

\* "Docs"
T_docs ==
    <<"D", "o", "c", "s">>

\* "the rust docs from Alice"
T_rust_docs ==
    <<"t", "h", "e", " ", "r", "u", "s", "t", " ", "d", "o", "c", "s", " ",
      "f", "r", "o", "m", " ", "A", "l", "i", "c", "e">>

\* "A pasta recipe by alice-b"
T_pasta_summary ==
    <<"A", " ", "p", "a", "s", "t", "a", " ", "r", "e", "c", "i", "p", "e",
      " ", "b", "y", " ", "a", "l", "i", "c", "e", "-", "b">>

\* "Rust"
T_cat_rust ==
    <<"R", "u", "s", "t">>

\* "food recipes"
T_cat_food ==
    <<"f", "o", "o", "d", " ", "r", "e", "c", "i", "p", "e", "s">>

\* Rows of the user's links as search_links and get_recent_links select them.
LinkIntro ==
    [url |-> "u1", title |-> T_intro, description |-> <<>>, ai_summary |-> <<>>,
     categories |-> <<T_cat_rust>>, created_at |-> Some(NOW - 1 * HOURS_PER_DAY)]

LinkPasta ==
    [url |-> "u2", title |-> T_pasta, description |-> T_rust_docs,
     ai_summary |-> T_pasta_summary, categories |-> <<T_cat_food>>,
     created_at |-> Some(NOW - 10 * HOURS_PER_DAY)]

LinkDocs ==
    [url |-> "u3", title |-> T_docs, description |-> T_rust_docs,
     ai_summary |-> <<>>, categories |-> <<>>,
     created_at |-> Some(NOW - 7 * HOURS_PER_DAY)]

LinkToday ==
    [url |-> "u4", title |-> T_docs, description |-> <<>>, ai_summary |-> <<>>,
     categories |-> <<T_cat_rust, T_cat_food>>, created_at |-> Some(NOW - 13)]

\* "Docs about Rust"
T_guide ==
    <<"D", "o", "c", "s", " ", "a", "b", "o", "u", "t", " ", "R", "u", "s", "t">>

\* "Trust docsets"
T_trust ==
    <<"T", "r", "u", "s", "t", " ", "d", "o", "c", "s", "e", "t", "s">>

LinkGuide ==
    [url |-> "u5", title |-> T_guide, description |-> <<>>, ai_summary |-> <<>>,
     categories |-> <<>>, created_at |-> Some(NOW - 2 * HOURS_PER_DAY)]

LinkTrust ==
    [url |-> "u6", title |-> T_trust, description |-> <<>>, ai_summary |-> <<>>,
     categories |-> <<>>, created_at |-> Some(NOW - 3 * HOURS_PER_DAY)]

\* Words the generated queries are made of.
QueryWords ==
    {<<"r", "u", "s", "t">>, <<"d", "o", "c", "s">>, <<"l", "a", "s", "t">>,
     <<"w", "e", "e", "k">>}

\* Queries written out: the ones of the tests and of the spec's scenarios, and
\* one for each pattern the code matches.
WrittenQueries ==
    {<<>>,
     <<" ">>,
     <<" ", " ", "r", "u", "s", "t", " ">>,
     <<"s", "h", "o", "w", " ", "m", "e", " ", "d", "o", "c", "s">>,
     <<"r", "u", "s", "t", " ", "o", "w", "n", "e", "r", "s", "h", "i", "p">>,
     <<"s", "o", "m", "e", "t", "h", "i", "n", "g", " ", "l", "a", "s", "t",
       " ", "w", "e", "e", "k">>,
     <<"d", "o", "c", "s", " ", "t", "o", "d", "a", "y">>,
     <<"r", "u", "s", "t", " ", "y", "e", "s", "t", "e", "r", "d", "a", "y">>,
     <<"p", "a", "s", "t", "a", " ", "l", "a", "s", "t", " ", "m", "o", "n",
       "t", "h">>,
     <<"l", "a", "s", "t", " ", "y", "e", "a", "r", " ", "d", "o", "c", "s">>,
     <<"d", "o", "c", "s", " ", "l", "a", "s", "t", " ", "3", " ", "d", "a",
       "y", "s">>,
     <<"r", "u", "s", "t", " ", "l", "a", "s", "t", " ", "2", " ", "w", "e",
       "e", "k", "s">>,
     <<"l", "i", "n", "k", "s", " ", "f", "r", "o", "m", " ", "A", "l", "i",
       "c", "e">>,
     <<"s", "h", "a", "r", "e", "d", " ", "b", "y", " ", "a", "l", "i", "c",
       "e", "-", "b", " ", "p", "a", "s", "t", "a">>,
     <<"I", "n", "t", "r", "o", " ", "t", "o", " ", "R", "u", "s", "t", " ",
       "O", "w", "n", "e", "r", "s", "h", "i", "p">>,
     <<"m", "y", " ", "r", "e", "c", "e", "n", "t", "l", "y", " ", "s", "a",
       "v", "e", "d">>,
     <<"t", "h", "e", " ", "P", "L", "A", "T", "E", "S", "T", " ", "d", "o",
       "c", "s">>,
     <<"c", "o", "o", "k", "i", "n", "g", " ", "p", "a", "s", "t", "a", " ",
       "r", "e", "c", "i", "p", "e", "s", " ", "o", "w", "n", "e", "r", "s",
       "h", "i", "p", " ", "r", "u", "s", "t">>}

\* ------------------------------------------------------ find_links_by_query

\* Largest limit a caller asks for.
MaxLimit == 2

\* Most words of a generated query.
MaxQueryWords == 2

\* The queries made of at most MaxQueryWords words joined by single spaces.
GeneratedQueries ==
    UNION {{Join(ws, <<" ">>) : ws \in [1..n -> QueryWords]} : n \in 1..MaxQueryWords}

Queries == WrittenQueries \cup GeneratedQueries

\* What search_links may select for the user, best first, before its LIMIT.
SearchSelections ==
    {<<>>, <<LinkIntro, LinkPasta>>,
     <<LinkPasta, LinkDocs, LinkToday, LinkGuide, LinkTrust>>}

\* What get_recent_links may select, newest first.
RecentSelections == {<<>>, <<LinkToday, LinkIntro, LinkDocs, LinkPasta>>}

FqLocalsInit(query, limit) ==
    [user_id |-> 1, query_arg |-> query, limit |-> limit, query |-> <<>>,
     window_start |-> None, entities |-> <<>>, search_results |-> <<>>,
     words |-> <<>>]

\* History: what get_recent_links returned, the candidates handed to the
\* temporal filter and the scores the survivors got, in discovery order.
FqObsInit ==
    [ranked |-> FALSE, recent |-> None, filter_input |-> <<>>, scores |-> <<>>]

FqIdle ==
    /\ fq_pc = "start"
    /\ fq = FqLocalsInit(<<>>, 1)
    /\ fq_calls = <<>>
    /\ fq_result = None
    /\ fq_obs = FqObsInit

FqInit ==
    /\ fq_pc = "start"
    /\ fq \in {FqLocalsInit(query, limit) : query \in Queries, limit \in 1..MaxLimit}
    /\ fq_calls = <<>>
    /\ fq_result = None
    /\ fq_obs = FqObsInit

\* The test for whole words only.
asks_for_recent_whole_word(query_lower) ==
    \/ S_recent \in Range(FindWords(query_lower))
    \/ S_latest \in Range(FindWords(query_lower))

\* line 56: any(token in query_lower for token in ("recent", "latest"))
asks_for_recent(query_lower) ==
    Contains(query_lower, S_recent) \/ Contains(query_lower, S_latest)

\* lines 52-64: the query is stripped; an empty one ends the call, one that
\* asks for recent links returns get_recent_links; otherwise the time filter
\* and the entities are extracted.
FQ_Start ==
    /\ fq_pc = "start"
    /\ LET query == StripStr(fq.query_arg)
       IN  IF query = <<>>
           THEN /\ fq_result' = Some(<<>>)
                /\ fq_pc' = "done"
                /\ fq' = [fq EXCEPT !.query = query]
                /\ UNCHANGED <<fq_calls, fq_obs>>
           ELSE IF asks_for_recent(Lower(query))
           THEN /\ \E rows \in RecentSelections :
                      /\ fq_result' = Some(Take(rows, fq.limit))
                      /\ fq_obs' = [fq_obs EXCEPT
                                      !.recent = Some(Take(rows, fq.limit))]
                /\ fq_calls' = Append(fq_calls,
                      [op |-> "get_recent_links", query |-> <<>>,
                       limit |-> fq.limit])
                /\ fq_pc' = "done"
                /\ fq' = [fq EXCEPT !.query = query]
           ELSE /\ fq' = [fq EXCEPT
                            !.query = query,
                            !.window_start = extract_time_filter(Lower(query), NOW),
                            !.entities = extract_entities(query)]
                /\ fq_pc' = "search_raw"
                /\ UNCHANGED <<fq_calls, fq_result, fq_obs>>
    /\ UNCHANGED notFq

\* lines 69-71: the pass with the query as given.
FQ_SearchRaw ==
    /\ fq_pc = "search_raw"
    /\ \E rows \in SearchSelections :
          /\ fq' = [fq EXCEPT !.search_results =
                       fq.search_results \o Take(rows, 2 * fq.limit)]
          /\ fq_calls' = Append(fq_calls,
                [op |-> "search_links", query |-> fq.query,
                 limit |-> 2 * fq.limit])
    /\ fq_pc' = "search_cleaned"
    /\ UNCHANGED <<fq_result, fq_obs>>
    /\ UNCHANGED notFq

\* The terms of the second pass without the entity tokens.
search_terms_without_entities(query, entities) == clean_query_terms(query)

\* line 77: the terms of the second pass.
search_terms(query, entities) ==
    IF entities = <<>> THEN clean_query_terms(query)
    ELSE StripStr(clean_query_terms(query) \o <<" ">> \o Join(entities, <<" ">>))

\* lines 73-83: the pass with the cleaned terms, and line 86.
FQ_SearchCleaned ==
    /\ fq_pc = "search_cleaned"
    /\ LET cleaned_terms == clean_query_terms(fq.query)
           meaningful_words == extract_meaningful_words(fq.query)
           words == IF Len(meaningful_words) >= 2
                    THEN Take(meaningful_words, 3) ELSE <<>>
       IN  IF cleaned_terms # <<>> /\ cleaned_terms # fq.query
           THEN \E rows \in SearchSelections :
                   /\ fq' = [fq EXCEPT
                               !.search_results = fq.search_results \o
                                   unique_new(fq.search_results,
                                              Take(rows, 2 * fq.limit)),
                               !.words = words]
                   /\ fq_calls' = Append(fq_calls,
                         [op |-> "search_links",
                          query |-> search_terms(fq.query, fq.entities),
                          limit |-> 2 * fq.limit])
           ELSE /\ fq' = [fq EXCEPT !.words = words]
                /\ UNCHANGED fq_calls
    /\ fq_pc' = "search_words"
    /\ UNCHANGED <<fq_result, fq_obs>>
    /\ UNCHANGED notFq

\* config of the single-word passes, line 90
WORD_BATCH == 5

\* lines 88-92: one turn of the loop over the meaningful words.
FQ_SearchWord ==
    /\ fq_pc = "search_words"
    /\ fq.words # <<>>
    /\ LET word == Head(fq.words)
       IN  IF Len(word) >= 4
           THEN \E rows \in SearchSelections :
                   /\ fq' = [fq EXCEPT
                               !.search_results = fq.search_results \o
                                   unique_new(fq.search_results,
                                              Take(rows, WORD_BATCH)),
                               !.words = Tail(fq.words)]
                   /\ fq_calls' = Append(fq_calls,
                         [op |-> "search_links", query |-> word,
                          limit |-> WORD_BATCH])
           ELSE /\ fq' = [fq EXCEPT !.words = Tail(fq.words)]
                /\ UNCHANGED fq_calls
    /\ UNCHANGED <<fq_pc, fq_result, fq_obs>>
    /\ UNCHANGED notFq

\* lines 94-105: filter, score, cut.
FQ_Rank ==
    /\ fq_pc = "search_words"
    /\ fq.words = <<>>
    /\ LET kept == time_filter(fq.search_results, fq.window_start)
       IN  /\ fq_result' = Some(Take(score_search_results(kept, fq.query,
                                                          fq.entities),
                                     fq.limit))
           /\ fq' = [fq EXCEPT !.search_results = kept]
    /\ fq_obs' = [ranked |-> TRUE, recent |-> None,
                  filter_input |-> fq.search_results,
                  scores |-> [i \in 1..Len(time_filter(fq.search_results,
                                                       fq.window_start)) |->
                                score_result(time_filter(fq.search_results,
                                                         fq.window_start)[i],
                                             fq.query, fq.entities)]]
    /\ fq_pc' = "done"
    /\ UNCHANGED fq_calls
    /\ UNCHANGED notFq

FqNext ==
    \/ FQ_Start
    \/ FQ_SearchRaw
    \/ FQ_SearchCleaned
    \/ FQ_SearchWord
    \/ FQ_Rank

\* ============================================================= archive_link

\* Most calls of archive_link in one behaviour.
MaxArchiveCalls == 2

\* line 70: the host put in front of a relative Content-Location.
WAYBACK_HOST == "https://web.archive.org"

\* str.startswith
StartsWith(s, prefix) ==
    Len(s) >= Len(prefix) /\ SubSeq(s, 1, Len(prefix)) = prefix

\* lines 66: the status codes that count as a capture.
WAYBACK_OK == {200, 201, 202}

\* What requests.get of the save endpoint can give: an exception (timeout,
\* connection error), or a response with a status and maybe a
\* Content-Location header, relative or absolute.
WaybackResponses ==
    {[kind |-> "error", status_code |-> 0, content_location |-> ""]}
    \cup [kind : {"response"}, status_code : {200, 202, 302, 429},
          content_location : {"", "/web/2026/u1",
                              "https://web.archive.org/web/2026/u1",
                              "http://web.archive.org/web/2026/u1"}]

\* _request_snapshot, lines 57-79
request_snapshot(response) ==
    IF response.kind = "error" THEN None
    ELSE IF response.status_code \in WAYBACK_OK /\ response.content_location # ""
    THEN IF ~StartsWith(response.content_location, "http")
         THEN Some(WAYBACK_HOST \o response.content_location)
         ELSE Some(response.content_location)
    ELSE None

\* What process_url can give _save_local_snapshot: an exception, None, or a
\* page whose html may be empty.
ArProcessUrlOutcomes ==
    {[kind |-> "raise", html |-> ""], [kind |-> "none", html |-> ""],
     [kind |-> "page", html |-> ""], [kind |-> "page", html |-> "<html>u1</html>"],
     [kind |-> "page", html |-> "<html>u1 edited</html>"]}

\* lines 89-90: SNAPSHOT_DIR / f"link_{link_id}_{timestamp}.html", the
\* timestamp being the clock read to the second.
snapshot_path_of(link_id, timestamp) ==
    "snapshots/link_" \o ToString(link_id) \o "_" \o ToString(timestamp) \o ".html"

\* Path.write_text: the file is created or replaced.
write_text(fs, path, content) ==
    [p \in DOMAIN fs \cup {path} |-> IF p = path THEN content ELSE fs[p]]

\* The file system before any snapshot.
NoFiles == [p \in {} |-> ""]

ArLocalsInit ==
    [link_id |-> 1, url |-> "u1", wayback_snapshot |-> None, html |-> "",
     snapshot_path |-> ""]

ArPending == [kind |-> "pending", value |-> None]

\* History of one call: the tables and files when it began, and the steps
\* it took.
ArObsInit(d, fs, n) == [db_start |-> d, files_start |-> fs, ops |-> <<>>, call |-> n]

ArDid(op) == [ar_obs EXCEPT !.ops = Append(ar_obs.ops, op)]

\* The link was registered by add_link before archive_link is called
\* (handlers.py line 187).
ArInit ==
    /\ ar_pc = "wayback"
    /\ ar = ArLocalsInit
    /\ ar_result = ArPending
    /\ ar_obs = ArObsInit(DbWithLink, NoFiles, 1)
    /\ files = NoFiles
    /\ clock = 0
    /\ db = DbWithLink
    /\ METADATA_SCHEMA_ENSURED = FALSE
    /\ db_log = DbLogInit

ArIdle ==
    /\ ar_pc = "idle"
    /\ ar = ArLocalsInit
    /\ ar_result = ArPending
    /\ ar_obs = ArObsInit(EmptyDb, NoFiles, 0)
    /\ files = NoFiles
    /\ clock = 0

\* The Wayback attempt followed by the local tier whatever it gave.
AR_Wayback_then_local ==
    /\ ar_pc = "wayback"
    /\ \E response \in WaybackResponses :
          ar' = [ar EXCEPT !.wayback_snapshot = request_snapshot(response)]
    /\ ar_pc' = "local"
    /\ ar_obs' = ArDid("wayback")
    /\ UNCHANGED <<ar_result, files, clock, db>>
    /\ UNCHANGED notAr

\* line 34: the Wayback attempt; its errors are caught inside.
AR_Wayback ==
    /\ ar_pc = "wayback"
    /\ \E response \in WaybackResponses :
          /\ ar' = [ar EXCEPT !.wayback_snapshot = request_snapshot(response)]
          /\ ar_pc' = IF IsNone(request_snapshot(response)) THEN "local"
                      ELSE "wayback_store"
    /\ ar_obs' = ArDid("wayback")
    /\ UNCHANGED <<ar_result, files, clock, db>>
    /\ UNCHANGED notAr

\* lines 35-37: the snapshot is stored (outside any try) and returned.
AR_WaybackStore ==
    /\ ar_pc = "wayback_store"
    /\ \E fault \in Faults :
          LET res == add_link_snapshot(db, ar.link_id, ar.wayback_snapshot[1],
                                       fault)
          IN  /\ db' = res.db
              /\ ar_result' =
                   IF res.outcome.kind = "raised"
                   THEN [kind |-> "raised", value |-> None]
                   ELSE [kind |-> "returned", value |-> ar.wayback_snapshot]
    /\ ar_pc' = "done"
    /\ ar_obs' = ArDid("add_link_snapshot")
    /\ UNCHANGED <<ar, files, clock>>
    /\ UNCHANGED notAr

\* lines 85-87: process_url; an exception is caught at line 45, no page or no
\* html gives None.
AR_ProcessUrl ==
    /\ ar_pc = "local"
    /\ \E outcome \in ArProcessUrlOutcomes :
          IF outcome.kind = "page" /\ outcome.html # ""
          THEN /\ ar' = [ar EXCEPT !.html = outcome.html]
               /\ ar_pc' = "write_file"
               /\ UNCHANGED ar_result
          ELSE /\ ar_result' = [kind |-> "returned", value |-> None]
               /\ ar_pc' = "done"
               /\ UNCHANGED ar
    /\ ar_obs' = ArDid("process_url")
    /\ UNCHANGED <<files, clock, db>>
    /\ UNCHANGED notAr

\* lines 89-91: the file is written; an OSError is caught at line 45.
AR_WriteFile ==
    /\ ar_pc = "write_file"
    /\ \E written \in BOOLEAN :
          IF written
          THEN /\ files' = write_text(files, snapshot_path_of(ar.link_id, clock),
                                      ar.html)
               /\ ar' = [ar EXCEPT
                           !.snapshot_path = snapshot_path_of(ar.link_id, clock)]
               /\ ar_pc' = "update_details"
               /\ UNCHANGED ar_result
          ELSE /\ ar_result' = [kind |-> "returned", value |-> None]
               /\ ar_pc' = "done"
               /\ UNCHANGED <<ar, files>>
    /\ ar_obs' = ArDid("write_text")
    /\ UNCHANGED <<clock, db>>
    /\ UNCHANGED notAr

\* line 92: archived_html is stored; an exception is caught at line 45.
AR_UpdateDetails ==
    /\ ar_pc = "update_details"
    /\ \E fault \in Faults :
          LET res == update_link_details(db, ar.link_id,
                        [NoDetails EXCEPT !.archived_html = Some(ar.html)], fault)
          IN  /\ db' = res.db
              /\ IF res.outcome.kind = "raised"
                 THEN /\ ar_result' = [kind |-> "returned", value |-> None]
                      /\ ar_pc' = "done"
                 ELSE /\ ar_pc' = "local_store"
                      /\ UNCHANGED ar_result
    /\ ar_obs' = ArDid("update_link_details")
    /\ UNCHANGED <<ar, files, clock>>
    /\ UNCHANGED notAr

\* lines 42-47: the path is stored and returned; an exception is caught.
AR_LocalStore ==
    /\ ar_pc = "local_store"
    /\ \E fault \in Faults :
          LET res == add_link_snapshot(db, ar.link_id, ar.snapshot_path, fault)
          IN  /\ db' = res.db
              /\ ar_result' =
                   IF res.outcome.kind = "raised"
                   THEN [kind |-> "returned", value |-> None]
                   ELSE [kind |-> "returned", value |-> Some(ar.snapshot_path)]
    /\ ar_pc' = "done"
    /\ ar_obs' = ArDid("add_link_snapshot")
    /\ UNCHANGED <<ar, files, clock>>
    /\ UNCHANGED notAr

\* handlers.py line 192: the next /archive of the same link, in the same
\* second or later.
AR_Call ==
    /\ ar_pc = "done"
    /\ ar_obs.call < MaxArchiveCalls
    /\ \E tick \in {0, 1} : clock' = clock + tick
    /\ ar_pc' = "wayback"
    /\ ar' = ArLocalsInit
    /\ ar_result' = ArPending
    /\ ar_obs' = ArObsInit(db, files, ar_obs.call + 1)
    /\ UNCHANGED <<files, db>>
    /\ UNCHANGED notAr

ArNext ==
    \/ AR_Wayback
    \/ AR_WaybackStore
    \/ AR_ProcessUrl
    \/ AR_WriteFile
    \/ AR_UpdateDetails
    \/ AR_LocalStore
    \/ AR_Call

\* ========================================================== specifications

\* A subsystem that takes no step in a specification stays as constructed.
PuIdle ==
    /\ cfg = [ENABLE_RENDERER |-> TRUE, RENDERER_URL |-> FALSE,
              ENABLE_SCREENSHOT_OCR |-> TRUE]
    /\ pu_pc = "start"
    /\ pu = PuLocalsInit
    /\ pu_result = None
    /\ render_calls = 0
    /\ ocr_calls = 0
    /\ pu_obs = PuObsInit

HuIdle ==
    /\ hu = [p \in Tasks |-> HuLocalsInit("")]
    /\ hu_obs = HuObsInit

AiIdle ==
    /\ ai_cfg = ""
    /\ ai_pc = "idle"
    /\ ai_frame = AiFrameInit
    /\ ai_calls = <<>>
    /\ ai_result = None

DbIdle ==
    /\ db = EmptyDb
    /\ METADATA_SCHEMA_ENSURED = FALSE
    /\ db_log = DbLogInit

InitPipeline == PuInit /\ AiIdle /\ DbIdle /\ HuIdle /\ FqIdle /\ ArIdle

SpecPipeline == InitPipeline /\ [][PuNext]_vars

InitAnalyze == AiInit /\ PuIdle /\ DbIdle /\ HuIdle /\ FqIdle /\ ArIdle

SpecAnalyze == InitAnalyze /\ [][AiNext]_vars

InitDb == DbInit /\ PuIdle /\ AiIdle /\ HuIdle /\ FqIdle /\ ArIdle

SpecDb == InitDb /\ [][DbNext]_vars

InitUpsert == UpsertInit /\ PuIdle /\ AiIdle /\ HuIdle /\ FqIdle /\ ArIdle

SpecUpsert == InitUpsert /\ [][UpsertNext]_vars

InitSave == SaveInit /\ PuIdle /\ AiIdle /\ FqIdle /\ ArIdle

SpecSave == InitSave /\ [][SaveNext]_vars

InitShare == ShareInit /\ PuIdle /\ AiIdle /\ FqIdle /\ ArIdle

SpecShare == InitShare /\ [][ShareNext]_vars

InitFind == FqInit /\ PuIdle /\ AiIdle /\ DbIdle /\ HuIdle /\ ArIdle

SpecFind == InitFind /\ [][FqNext]_vars

InitArchive == ArInit /\ PuIdle /\ AiIdle /\ HuIdle /\ FqIdle

SpecArchive == InitArchive /\ [][ArNext]_vars

\* ------------------------------------------------------- claims: pipeline

\* The run has passed the escalation check of line 229.
PastRenderCheck ==
    pu_obs.direct_done /\ pu_pc \notin {"start", "check_render"}

\* The direct fetch left too little readable text, in the claim's words.
DirectIsSparse ==
    \/ IsEmptyText(pu_obs.direct_text)
    \/ /\ WordCount(pu_obs.direct_text) < RENDERER_MIN_WORDS
       /\ IsNone(pu_obs.direct_metadata.description)

\* C1: in a process_url run whose direct fetch succeeded, render_with_browser
\* is invoked exactly once when the renderer is enabled and configured and the
\* direct text is empty or is short with no description, zero times in every
\* other case, and never more than once.
C1_RenderInvokedOnceIffSparse ==
    /\ render_calls <= 1
    /\ PastRenderCheck =>
          render_calls =
             IF cfg.ENABLE_RENDERER /\ cfg.RENDERER_URL /\ DirectIsSparse
             THEN 1 ELSE 0

C1_Witness ==
    /\ pu_pc = "done"
    /\ render_calls = 1
    /\ ~IsEmptyText(pu_obs.direct_text)
    /\ WordCount(pu_obs.direct_text) = RENDERER_MIN_WORDS - 1

\* C2: process_url returns None if and only if the tier-1 fetch failed; once
\* the fetch succeeded the run never fails and returns a result record.
C2_NullOnlyWhenFetchFails ==
    /\ pu_obs.fetched => pu_pc # "raised"
    /\ pu_pc = "done" => (IsNone(pu_result) <=> ~pu_obs.fetched)

\* C3: OCR is invoked only if the renderer returned a screenshot and the text
\* after the render step is empty or below RENDERER_MIN_WORDS words; non-empty
\* OCR text becomes the returned text, empty OCR text leaves it unchanged.
C3_OcrOnlyWhenNeededAndReplaces ==
    /\ ocr_calls <= 1
    /\ ocr_calls = 1 =>
          /\ pu_obs.render_kind = "result"
          /\ pu.render_result.screenshot_base64 # "absent"
          /\ \/ IsEmptyText(pu_obs.text_after_render)
             \/ WordCount(pu_obs.text_after_render) < RENDERER_MIN_WORDS
    /\ (pu_pc = "done" /\ ocr_calls = 1) =>
          pu_result[1].text_content =
             IF IsEmptyText(pu_obs.ocr_text)
             THEN pu_obs.text_after_render
             ELSE pu_obs.ocr_text

C3_Witness ==
    /\ pu_pc = "done"
    /\ ocr_calls = 1
    /\ ~IsEmptyText(pu_obs.ocr_text)
    /\ ~IsEmptyText(pu_obs.text_after_render)
    /\ pu_result[1].text_content = pu_obs.ocr_text

\* The returned text or metadata was assigned from renderer output: the
\* rendered HTML, the renderer's plain text, or OCR of its screenshot.
ResultFromRenderer(r) ==
    \/ pu_obs.text_tier \in {"rendered_html", "renderer_text", "ocr"}
    \/ r.metadata.src = "rendered"

\* C4: the extraction_method tag names the tier that produced the returned
\* content: "renderer" only when the returned text or metadata was derived
\* from renderer output, "direct" only when both are those of the direct fetch.
C4_MethodNamesProducingTier ==
    (pu_pc = "done" /\ ~IsNone(pu_result)) =>
        /\ pu_result[1].extraction_method = "renderer" =>
              ResultFromRenderer(pu_result[1])
        /\ pu_result[1].extraction_method = "direct" =>
              /\ pu_obs.text_tier = "direct"
              /\ pu_result[1].text_content = pu_obs.direct_text
              /\ pu_result[1].metadata.src = pu_obs.direct_metadata.src
              /\ pu_result[1].metadata.description =
                    pu_obs.direct_metadata.description

\* read_time is ceil(word_count / 200), None for no words.
CountsAgree(metadata, words) ==
    /\ metadata.word_count = Some(words)
    /\ words = 0 => IsNone(metadata.read_time)
    /\ words > 0 =>
          /\ ~IsNone(metadata.read_time)
          /\ metadata.read_time[1] * WORDS_PER_MINUTE >= words
          /\ (metadata.read_time[1] - 1) * WORDS_PER_MINUTE < words

\* C5: in every non-null result metadata.word_count is the token count of
\* the returned text and read_time is ceil(word_count / 200), None for no
\* words, whichever tier produced the text; the same holds of every
\* extract_metadata result on non-empty HTML.
C5_CountsMatchReturnedText ==
    /\ (pu_pc = "done" /\ ~IsNone(pu_result)) =>
          CountsAgree(pu_result[1].metadata,
                      WordCount(pu_result[1].text_content))
    /\ (pu_obs.direct_done /\ pu_obs.direct_metadata.extracted) =>
          CountsAgree(pu_obs.direct_metadata, WordCount(pu_obs.direct_text))

C5_Witness ==
    /\ pu_pc = "done"
    /\ ~IsNone(pu_result)
    /\ pu_obs.text_tier = "ocr"
    /\ pu_obs.direct_metadata.extracted
    /\ pu_result[1].metadata.word_count # pu_obs.direct_metadata.word_count
    /\ pu_result[1].metadata.read_time = Some(1)

\* ------------------------------------------------------ claims: enrichment

\* The first request of the invocation failed (the call or its parse raised).
Failed(call) == call.outcome \in {"raise", "bad_json"}

\* C6: for non-empty text, whenever the model call fails exactly one retry
\* with gpt-4o-mini is made if the failed call did not already use that model,
\* whether the model came from configuration or from the caller's argument,
\* and none if it did; a failed or skipped retry yields the degraded default;
\* no invocation issues more than two requests.
C6_OneFallbackRetryUnlessOnFallback ==
    /\ Len(ai_calls) <= 2
    /\ (ai_pc = "done" /\ Len(ai_calls) >= 1 /\ Failed(ai_calls[1])) =>
          IF ai_calls[1].model # "gpt-4o-mini"
          THEN /\ Len(ai_calls) = 2
               /\ ai_calls[2].model = "gpt-4o-mini"
               /\ Failed(ai_calls[2]) => ai_result = Some(DEFAULT_ANALYSIS)
          ELSE /\ Len(ai_calls) = 1
               /\ ai_result = Some(DEFAULT_ANALYSIS)

\* The degraded-default object, as the claim spells it out.
DegradedDefault ==
    [category |-> <<>>, categories |-> <<>>, topics |-> <<>>,
     entities |-> <<>>, summary |-> "No summary available.", tags |-> <<>>]

\* C7: analyze_text_content returns the fixed degraded-default object when
\* there is no usable model output: at once and with no model call for empty
\* text, and for a response with no choices or an empty message content.
C7_DegradedDefaultWithoutOutput ==
    ai_pc = "done" =>
        /\ ~IsNone(ai_result)
        /\ IsEmptyText(ai_frame.text_content) =>
              (ai_calls = <<>> /\ ai_result = Some(DegradedDefault))
        /\ (ai_calls # <<>>
             /\ ai_calls[Len(ai_calls)].outcome \in {"no_choices", "empty_content"})
              => ai_result = Some(DegradedDefault)

C7_Witness ==
    /\ ai_pc = "done"
    /\ Len(ai_calls) = 1
    /\ ai_calls[1].outcome = "no_choices"
    /\ ai_result = Some(DegradedDefault)

C7_WitnessEmptyText ==
    /\ ai_pc = "done"
    /\ IsEmptyText(ai_frame.text_content)
    /\ ai_calls = <<>>

\* C30: the fallback retry of analyze_text_content sends the input of the
\* failed attempt except for the model: the same text and the same user
\* context.
C30_RetrySendsSameInput ==
    Len(ai_calls) = 2 =>
        /\ ai_calls[2].text_content = ai_calls[1].text_content
        /\ ai_calls[2].user_context = ai_calls[1].user_context
        /\ ai_calls[2].model # ai_calls[1].model

\* The part of C30 the code keeps: the retry sends the same text to the
\* fallback model.
C30_RetrySendsSameText ==
    Len(ai_calls) = 2 =>
        /\ ai_calls[2].text_content = ai_calls[1].text_content
        /\ ai_calls[2].model = FALLBACK_MODEL
        /\ ai_calls[2].model # ai_calls[1].model

\* ----------------------------------------------------- claims: persistence

\* The tables without the sequence counter.
Tables(d) == [d EXCEPT !.link_seq = 0]

\* An add_link call that came back with a link id.
GotLinkId(call) ==
    call.outcome.kind = "returned" /\ ~IsNone(call.outcome.value)

\* The add_link calls for (user_id, url) that came back with a link id.
CallsFor(user_id, url) ==
    SelectSeq(db_log.calls,
              LAMBDA c : c.user_id = user_id /\ c.url = url /\ GotLinkId(c))

\* The most recent non-null value the calls supplied for a column.
RECURSIVE LatestNonNull(_, _)
LatestNonNull(calls, column) ==
    IF calls = <<>> THEN None
    ELSE IF ~IsNone(calls[Len(calls)][column]) THEN calls[Len(calls)][column]
    ELSE LatestNonNull(SubSeq(calls, 1, Len(calls) - 1), column)

\* C8: after any sequence of add_link calls for the same (user, url) there is
\* exactly one links row for the pair, every call returned the same link id,
\* and title, description and domain each hold the most recent non-null value
\* supplied (null only if none was): a later non-null value wins, a later null
\* never overwrites.  Calls struck by a database error wrote nothing and
\* returned no id.
C8_UpsertMergesNonNull ==
    LET calls == CallsFor(1, "u1")
        rows == LinkRows(db, 1, "u1")
    IN  /\ Cardinality(rows) <= 1
        /\ calls = <<>> => rows = {}
        /\ calls # <<>> =>
              /\ Cardinality(rows) = 1
              /\ \A r \in rows :
                    /\ \A i \in 1..Len(calls) :
                          calls[i].outcome.value = Some(r.link_id)
                    /\ r.title = LatestNonNull(calls, "title")
                    /\ r.description = LatestNonNull(calls, "description")
                    /\ r.domain = LatestNonNull(calls, "domain")

C8_Witness ==
    /\ Len(db_log.calls) = 3
    /\ \A i \in 1..3 : GotLinkId(db_log.calls[i])
    /\ db_log.calls[1].title = Some("t1")
    /\ db_log.calls[2].title = Some("t2")
    /\ db_log.calls[3].title = None
    /\ db_log.calls[1].description = Some("d1")
    /\ db_log.calls[2].description = None
    /\ \E r \in LinkRows(db, 1, "u1") :
          r.title = Some("t2") /\ r.description = Some("d1")

\* C9: every mutating persistence operation runs in one transaction: on
\* success all its writes are committed; when a database error occurs none of
\* its writes is visible afterwards and the exception is re-raised to the
\* caller rather than swallowed.
C9_AllOrNothingAndReraised ==
    db_log.last.op # "none" =>
        IF db_log.last.fault = "none"
        THEN /\ Tables(db) = Tables(db_log.last.full)
             /\ db_log.last.outcome.kind = "returned"
        ELSE /\ Tables(db) = Tables(db_log.last.before)
             /\ db_log.last.outcome.kind = "raised"

\* The part of C9 that every operation meets: all of a call's writes are
\* committed, or none is visible.
C9_AllOrNothing ==
    db_log.last.op # "none" =>
        IF db_log.last.fault = "none"
        THEN Tables(db) = Tables(db_log.last.full)
        ELSE Tables(db) = Tables(db_log.last.before)

\* ... and every operation but add_link re-raises the error.
C9_ReraisedExceptAddLink ==
    (db_log.last.op \notin {"none", "add_link"} /\ db_log.last.fault # "none")
        => db_log.last.outcome.kind = "raised"

\* --------------------------------------------------- claims: concurrent saves

AllDone == \A p \in Tasks : hu[p].pc = "done"

\* The task got a link id from add_link.
Saved(p) == ~IsNone(hu[p].link_id)

\* The value a task that saved supplied for a column of the links row, over
\* all its persistence steps (None when it supplied none).
Supplied(p, column) ==
    LET task == hu[p]
    IN  IF IsNone(task.page)
        THEN [NoDetails EXCEPT
                !.description = Some(task.user_note),
                !.ai_summary = Some("Saved with user context: " \o task.user_note)
             ][column]
        ELSE LET page == task.page[1]
             IN  [title |-> page.metadata.title,
                  description |-> link_description(page, task.user_note),
                  domain |-> page.metadata.domain,
                  screenshot_path |-> page.screenshot_path,
                  archived_html |-> page.html,
                  ai_summary |->
                     IF IsEmptyText(Strip(page.text_content))
                     THEN Some(fallback_summary(page, task.user_note))
                     ELSE IF IsNone(task.ai_analysis) THEN None
                     ELSE Some(task.ai_analysis[1].summary)][column]

\* C10: under every interleaving of the persistence steps of two concurrent
\* saves of the same URL by the same user, the store holds at most one links
\* row for (user, url) and exactly one once a save got its link id, both
\* saves operate on that row's link id, and when both have ended every column
\* for which a save supplied a non-null value holds one of the supplied
\* values: none is lost to a null.
C10_ConcurrentSavesMerge ==
    LET rows == LinkRows(db, 1, "u1")
    IN  /\ db.links = rows
        /\ Cardinality(rows) <= 1
        /\ \A p \in Tasks :
              Saved(p) => \E r \in rows : hu[p].link_id = Some(r.link_id)
        /\ Cardinality(db.link_metadata) <= 1
        /\ Cardinality(db.link_embeddings) <= 1
        /\ AllDone =>
              \A r \in rows, c \in LinkDetailColumns :
                 LET values == {Supplied(p, c) : p \in {q \in Tasks : Saved(q)}}
                                  \ {None}
                 IN  values # {} => r[c] \in values

\* Both saves ended after interleaving: the description is the one of task
\* "a"'s page although the other save wrote its note there, the summary is
\* the other save's although "a" wrote one, and the title survived the other
\* save's null.
C10_Witness ==
    /\ AllDone
    /\ \A p \in Tasks : Saved(p) /\ hu[p].results = <<"ok">>
    /\ hu["a"].page = Some(HuPage(Some("t1"), Some("d1"), Some("shot.png"), BodyText))
    /\ hu["b"].page = Some(HuPage(None, None, None, EmptyText))
    /\ hu["b"].user_note = "note"
    /\ \E r \in LinkRows(db, 1, "u1") :
          /\ r.title = Some("t1")
          /\ r.description = Some("d1")
          /\ r.screenshot_path = Some("shot.png")
          /\ r.ai_summary = Some("Saved with your description: note")

\* -------------------------------------------------- claims: sharing a link

\* Task "a" has finished with its URL.
Processed == hu["a"].pc = "done"

\* The link_sources rows the run added.
SourcesRecorded ==
    SubSeq(db.link_sources, Len(hu_obs["a"].db_start.link_sources) + 1,
           Len(db.link_sources))

\* C11: when process_url fails for a URL, handle_urls still saves the link:
\* after the URL is processed a links row for (user, url) exists, it carries
\* the user's note as its description when the message contained one, and a
\* link_sources row for it has been recorded.
C11_FailedPageStillSaved ==
    (Processed /\ hu_obs["a"].outcome = "none") =>
        \E r \in LinkRows(db, hu["a"].user_id, hu["a"].url) :
            /\ hu["a"].user_note # "" => r.description = Some(hu["a"].user_note)
            /\ \E i \in 1..Len(SourcesRecorded) :
                  SourcesRecorded[i].link_id = r.link_id

\* The half of C11 the code meets: a message that carries a note.
C11_FailedPageSavedWithNote ==
    (Processed /\ hu_obs["a"].outcome = "none" /\ hu["a"].user_note # "") =>
        \E r \in LinkRows(db, hu["a"].user_id, hu["a"].url) :
            /\ r.description = Some(hu["a"].user_note)
            /\ SourcesRecorded = <<[link_id |-> r.link_id, shared_by_user_id |-> 1,
                                    platform |-> "telegram"]>>

\* add_link returned a link id on the branch of a fetched page.
FetchedAndSaved ==
    hu_obs["a"].outcome = "page" /\ ~IsNone(hu["a"].link_id)

\* The save of task "a" stands: the row and its metadata are persisted, one
\* source was recorded for this share, and the URL is reported with status ok.
SaveStands ==
    /\ \E r \in LinkRows(db, 1, "u1") : hu["a"].link_id = Some(r.link_id)
    /\ \E m \in db.link_metadata : hu["a"].link_id = Some(m.link_id)
    /\ SourcesRecorded = <<[link_id |-> hu["a"].link_id[1],
                            shared_by_user_id |-> 1, platform |-> "telegram"]>>
    /\ hu["a"].results = <<"ok">>

\* C12: when the fetch succeeded and add_link returned a link id, no outcome
\* of enrichment or embedding blocks the save: the links row and its metadata
\* stay persisted, exactly one link_sources row is recorded for this share,
\* and the URL is reported with status ok.
C12_EnrichmentNeverBlocksSave ==
    (Processed /\ FetchedAndSaved) => SaveStands

\* The outcomes C12 lists do not block the save: the degraded default (model
\* failure), an analysis whose values fit the columns, a null embedding.
C12_ListedOutcomesDoNotBlock ==
    (Processed /\ FetchedAndSaved
       /\ (~IsNone(hu["a"].ai_analysis) =>
              \A i \in 1..Len(hu["a"].ai_analysis[1].categories) :
                  fits_category(hu["a"].ai_analysis[1].categories[i])))
        => SaveStands

\* The calls task "a" made, and where a call of an operation stands.
CallsOfA == hu_obs["a"].calls

CallIndexes(op) == {i \in 1..Len(CallsOfA) : CallsOfA[i].op = op}

\* The writes that hang off the link row.
ChildWrites ==
    {"update_link_details", "add_link_metadata", "add_link_categories",
     "add_link_entities", "store_link_embedding", "record_link_source"}

\* The page was fetched with text, the analysis names categories and
\* entities, and no embedding came back without a vector.
FullyEnrichable ==
    /\ hu_obs["a"].outcome = "page"
    /\ ~IsEmptyText(Strip(hu["a"].page[1].text_content))
    /\ ~IsNone(hu["a"].ai_analysis)
    /\ hu["a"].ai_analysis[1].categories # <<>>
    /\ hu["a"].ai_analysis[1].entities # <<>>
    /\ CallIndexes("generate_embedding") # {} => CallIndexes("store_link_embedding") # {}

\* Every child write was issued, with the id add_link returned and after it,
\* and one reply closes the run.
AllWritesIssuedThenOneReply ==
    /\ Cardinality(CallIndexes("add_link")) = 1
    /\ \A op \in ChildWrites : CallIndexes(op) # {}
    /\ \A i \in 1..Len(CallsOfA) :
          CallsOfA[i].op \in ChildWrites =>
              /\ CallsOfA[i].link_id = hu["a"].link_id
              /\ ~IsNone(hu["a"].link_id)
              /\ \A j \in CallIndexes("add_link") : j < i
    /\ CallIndexes("reply_text") = {Len(CallsOfA)}
    /\ hu["a"].replied

\* C24: for a fetched page with non-empty text whose analysis has non-empty
\* categories and entities and whose embedding has a vector, handle_urls
\* issues add_link, update_link_details, add_link_metadata,
\* add_link_categories, add_link_entities, store_link_embedding and
\* record_link_source; every child write uses the link id add_link returned
\* and happens after add_link returned it, and exactly one reply is sent after
\* all URLs of the message were processed.
C24_AllWritesWithLinkId ==
    (Processed /\ FullyEnrichable) => AllWritesIssuedThenOneReply

\* The same when every topic fits the category column.
C24_AllWritesWhenTopicsFit ==
    (Processed /\ FullyEnrichable
       /\ \A i \in 1..Len(hu["a"].ai_analysis[1].categories) :
             fits_category(hu["a"].ai_analysis[1].categories[i]))
        => AllWritesIssuedThenOneReply

\* The page came back without a word of text (empty, or white space only).
PageWithoutText ==
    hu_obs["a"].outcome = "page" /\ hu["a"].page[1].text_content.words = 0

C27_FlagImpliesColumns ==
    METADATA_SCHEMA_ENSURED => db.metadata_columns

\* The part of C27 the code keeps: an add_link_metadata call that commits
\* leaves the three columns in the committed schema.
C27_CommittedCallHasColumns ==
    (/\ db_log.last.op = "add_link_metadata"
     /\ db_log.last.fault = "none"
     /\ db_log.last.outcome.kind = "returned"
     /\ db # db_log.last.before)
        => db.metadata_columns


\* The run of task "a" re-saved a link whose row held an AI summary, and its
\* enrichment was degraded: the page text was empty or the analysis was the
\* default object.
DegradedResave ==
    /\ Processed
    /\ hu_obs["a"].outcome = "page"
    /\ hu_obs["a"].db_start = DbSavedBefore
    /\ PageWithoutText \/ hu["a"].ai_analysis = Some(DEFAULT_ANALYSIS)

\* C28: re-saving an already saved link never degrades its stored AI summary:
\* after a later handle_urls run whose enrichment yields the default object,
\* or whose page text is empty, the ai_summary of the row is the one the
\* earlier run stored.
C28_ResaveKeepsSummary ==
    DegradedResave =>
        \A r \in LinkRows(db, 1, "u1") :
            r.ai_summary = Some("An earlier summary.")

\* The part of C28 the code keeps: the re-save keeps the row and its link id.
C28_ResaveKeepsRow ==
    DegradedResave =>
        {r.link_id : r \in LinkRows(db, 1, "u1")}
            = {r.link_id : r \in LinkRows(DbSavedBefore, 1, "u1")}


\* The run of task "a" created or updated a links row: add_link returned its id.
WroteLinkRow == Processed /\ ~IsNone(hu["a"].link_id)

\* C29: whenever handle_urls has finished a URL, a run that created or updated
\* a links row also recorded a link_sources row for that link, and the URL is
\* reported as an error only if no links row was written; also when a
\* persistence step after add_link raises.
C29_RowWrittenMeansSourceAndNoError ==
    WroteLinkRow =>
        /\ \E i \in 1..Len(SourcesRecorded) :
              SourcesRecorded[i].link_id = hu["a"].link_id[1]
        /\ hu["a"].results # <<"error">>

\* The part of C29 the code keeps: a run in which no step raised records the
\* source of the row it wrote and reports the URL as saved.
C29_SourceRecordedWhenNothingRaises ==
    (WroteLinkRow /\ hu["a"].results = <<"ok">>) =>
        \E i \in 1..Len(SourcesRecorded) :
            SourcesRecorded[i].link_id = hu["a"].link_id[1]

\* ======================================================== retrieval claims

\* The call of find_links_by_query has returned.
FqDone == fq_pc = "done"

\* The stripped query holds "recent" or "latest", whatever the case of its
\* letters.
MentionsRecent ==
    LET q == Lower(StripStr(fq.query_arg))
    IN  \E i \in 1..Len(q) :
           /\ i + 5 <= Len(q)
           /\ SubSeq(q, i, i + 5) \in {<<"r", "e", "c", "e", "n", "t">>, <<"l", "a", "t", "e", "s", "t">>}

\* The call went past the short-circuits and ranked what the passes found.
FqRanked == FqDone /\ StripStr(fq.query_arg) # <<>> /\ ~MentionsRecent

\* C13: for every non-empty query that contains "recent" or "latest" as a
\* case-insensitive substring, find_links_by_query returns exactly the list
\* get_recent_links(user, limit) returned, issues no search_links call, applies
\* no temporal filter and does no scoring or reordering.
C13_RecentShortCircuit ==
    (FqDone /\ StripStr(fq.query_arg) # <<>> /\ MentionsRecent) =>
        /\ Len(fq_calls) = 1
        /\ fq_calls[1].op = "get_recent_links"
        /\ fq_calls[1].limit = fq.limit
        /\ ~IsNone(fq_obs.recent)
        /\ fq_result = fq_obs.recent
        /\ IsNone(fq.window_start)
        /\ ~fq_obs.ranked

\* "the PLATEST docs" has come back with the recent links.
C13_Witness ==
    /\ FqDone
    /\ fq.query_arg = <<"t", "h", "e", " ", "P", "L", "A", "T", "E", "S", "T", " ", "d", "o", "c", "s">>
    /\ fq_result # None
    /\ Len(fq_result[1]) = fq.limit

\* The candidates that survived the filter, in discovery order.
FqKept == fq.search_results

\* The written queries with a temporal phrase, and the bound each one gives.
ClaimedBounds ==
    {<<<<"s", "o", "m", "e", "t", "h", "i", "n", "g", " ", "l", "a", "s", "t", " ", "w", "e", "e", "k">>, NOW - 7 * 24>>,
     <<<<"d", "o", "c", "s", " ", "t", "o", "d", "a", "y">>, NOW - (NOW % 24)>>,
     <<<<"r", "u", "s", "t", " ", "y", "e", "s", "t", "e", "r", "d", "a", "y">>, NOW - (NOW % 24) - 24>>,
     <<<<"p", "a", "s", "t", "a", " ", "l", "a", "s", "t", " ", "m", "o", "n", "t", "h">>, NOW - 30 * 24>>,
     <<<<"l", "a", "s", "t", " ", "y", "e", "a", "r", " ", "d", "o", "c", "s">>, NOW - 365 * 24>>,
     <<<<"d", "o", "c", "s", " ", "l", "a", "s", "t", " ", "3", " ", "d", "a", "y", "s">>, NOW - 3 * 24>>,
     <<<<"r", "u", "s", "t", " ", "l", "a", "s", "t", " ", "2", " ", "w", "e", "e", "k", "s">>, NOW - 2 * 7 * 24>>,
     <<<<"l", "a", "s", "t", " ", "w", "e", "e", "k">>, NOW - 7 * 24>>}

\* C14: when the query yields a temporal lower bound (today, yesterday, last
\* week = 7 days, last month = 30 days, last year = 365 days, last N days,
\* last N weeks) and the call does not take the recent/latest short-circuit,
\* every link returned was created at or after the bound and no candidate
\* created at or after the bound is removed by the filter; with links aged 1
\* day and 10 days a "last week" query returns only the 1-day-old link.
C14_TemporalFilter ==
    FqRanked =>
        /\ \A b \in ClaimedBounds :
              fq.query = b[1] => fq.window_start = Some(b[2])
        /\ ~IsNone(fq.window_start) =>
              /\ \A i \in 1..Len(fq_result[1]) :
                    /\ ~IsNone(fq_result[1][i].created_at)
                    /\ fq_result[1][i].created_at[1] >= fq.window_start[1]
              /\ \A i \in 1..Len(fq_obs.filter_input) :
                    (/\ ~IsNone(fq_obs.filter_input[i].created_at)
                     /\ fq_obs.filter_input[i].created_at[1] >= fq.window_start[1])
                    => \E j \in 1..Len(FqKept) : FqKept[j] = fq_obs.filter_input[i]
        /\ (/\ fq.window_start = Some(NOW - 7 * 24)
            /\ fq_obs.filter_input = <<LinkIntro, LinkPasta>>)
           => fq_result = Some(<<LinkIntro>>)

\* "something last week" found a link saved exactly seven days ago, and it
\* is among the survivors while the ten-day-old one is not.
C14_Witness ==
    /\ FqDone
    /\ fq_obs.ranked
    /\ fq.query = <<"s", "o", "m", "e", "t", "h", "i", "n", "g", " ", "l", "a", "s", "t", " ", "w", "e", "e", "k">>
    /\ \E i \in 1..Len(fq_obs.filter_input) : fq_obs.filter_input[i] = LinkDocs
    /\ \E i \in 1..Len(fq_obs.filter_input) : fq_obs.filter_input[i] = LinkPasta
    /\ \E j \in 1..Len(FqKept) : FqKept[j] = LinkDocs
    /\ \A j \in 1..Len(FqKept) : FqKept[j] # LinkPasta

\* The words of a text: its maximal runs of letters, digits and apostrophes,
\* lowercased.
WordSet(text) == Range(FindWords(Lower(text)))

\* The score the scoring rule gives a candidate.
ClaimedScore(link, query, entities) ==
    LET title == Lower(link.title)
        summary == Lower(IF link.ai_summary # <<>> THEN link.ai_summary
                         ELSE link.description)
        categories == Join(link.categories, <<" ">>)
        matching == {i \in 1..Len(entities) :
                        \/ Contains(title, Lower(entities[i]))
                        \/ Contains(summary, Lower(entities[i]))}
    IN  3 * Cardinality(WordSet(query) \cap WordSet(title))
        + 2 * Cardinality(WordSet(query) \cap WordSet(summary))
        + 2 * Cardinality(WordSet(query) \cap WordSet(categories))
        + 5 * Cardinality(matching)
        + (IF Contains(title, Lower(query)) \/ Contains(summary, Lower(query))
           THEN 10 ELSE 0)

\* C15: the relevance score _score_search_results gives a candidate equals
\* 3 x (query words in the title's word set) + 2 x (query words in the word
\* set of the summary, or of the description when there is no summary) + 2 x
\* (query words in the word set of the joined categories) + 5 x (entity
\* tokens that are substrings of the title or the summary) + 10 if the whole
\* lowercased query is a substring of the title or the summary.
C15_ScoreFormula ==
    (FqDone /\ fq_obs.ranked) =>
        /\ Len(fq_obs.scores) = Len(FqKept)
        /\ \A i \in 1..Len(FqKept) :
              fq_obs.scores[i] = ClaimedScore(FqKept[i], fq.query, fq.entities)

\* "Intro to Rust Ownership" scored 18 for "rust ownership" (two title words,
\* one category word, the whole query in the title).
C15_Witness ==
    /\ FqDone
    /\ fq_obs.ranked
    /\ \E i \in 1..Len(FqKept) :
          /\ FqKept[i] = LinkIntro
          /\ fq.query = <<"r", "u", "s", "t", " ", "o", "w", "n", "e", "r", "s", "h", "i", "p">>
          /\ fq_obs.scores[i] = 18

\* An entity token found in a summary has added to a score.
C15_WitnessEntity ==
    /\ FqDone
    /\ fq_obs.ranked
    /\ fq.entities # <<>>
    /\ \E i \in 1..Len(FqKept) :
          /\ FqKept[i] = LinkPasta
          /\ fq_obs.scores[i] >= 5

\* Where a survivor stands in discovery order, and its score.
KeptIndex(link) == CHOOSE i \in 1..Len(FqKept) : FqKept[i] = link

KeptScore(link) == fq_obs.scores[KeptIndex(link)]

\* a is ranked before b: a higher score, or the same score and found earlier.
RanksBefore(a, b) ==
    \/ KeptScore(a) > KeptScore(b)
    \/ KeptScore(a) = KeptScore(b) /\ KeptIndex(a) < KeptIndex(b)

\* The result is the first `limit` survivors by non-increasing score, ties in
\* discovery order.
FirstLimitByScore ==
    LET result == fq_result[1]
        returned == {result[i] : i \in 1..Len(result)}
        kept == {FqKept[i] : i \in 1..Len(FqKept)}
    IN  /\ Len(result) <= fq.limit
        /\ Len(result) = (IF Len(FqKept) < fq.limit THEN Len(FqKept) ELSE fq.limit)
        /\ returned \subseteq kept
        /\ Cardinality(returned) = Len(result)
        /\ \A i, j \in 1..Len(result) : i < j => RanksBefore(result[i], result[j])
        /\ \A a \in returned : \A b \in kept \ returned : RanksBefore(a, b)

\* The title holds two of the query words.
TwoTitleWords(link) ==
    Cardinality(WordSet(fq.query) \cap WordSet(link.title)) >= 2

\* No query word is a word of the title, the summary or the categories.
MatchesNoQueryWord(link) ==
    WordSet(fq.query)
        \cap (WordSet(link.title)
              \cup WordSet(IF link.ai_summary # <<>> THEN link.ai_summary
                           ELSE link.description)
              \cup WordSet(Join(link.categories, <<" ">>))) = {}

\* C16 as stated: at most limit results, the first limit survivors by
\* non-increasing score with ties in discovery order; hence a candidate whose
\* title holds two of the query words always precedes a candidate that
\* matches none of the query words.
C16_TwoTitleWordsBeatNoWordMatch ==
    (FqDone /\ fq_obs.ranked) =>
        /\ FirstLimitByScore
        /\ \A a, b \in {FqKept[i] : i \in 1..Len(FqKept)} :
              (TwoTitleWords(a) /\ MatchesNoQueryWord(b)) => RanksBefore(a, b)

\* C16, amended: at most limit results, the first limit survivors by
\* non-increasing score with ties in discovery order; hence a candidate whose
\* title holds two of the query words (score at least 6) always precedes a
\* candidate whose score is below 6, and so one that matches no query word,
\* holds no entity token and does not hold the whole query as a substring.
C16_RankedByScore ==
    (FqDone /\ fq_obs.ranked) =>
        /\ FirstLimitByScore
        /\ \A a, b \in {FqKept[i] : i \in 1..Len(FqKept)} :
              /\ TwoTitleWords(a) => KeptScore(a) >= 6
              /\ (TwoTitleWords(a) /\ KeptScore(b) < 6) => RanksBefore(a, b)
              /\ (/\ MatchesNoQueryWord(b)
                  /\ ClaimedScore(b, <<>>, fq.entities) = 0
                  /\ ~Contains(Lower(b.title), Lower(fq.query))
                  /\ ~Contains(Lower(IF b.ai_summary # <<>> THEN b.ai_summary
                                     ELSE b.description), Lower(fq.query)))
                 => KeptScore(b) = 0

\* For "rust ownership" the pasta link was found first and the "Intro to Rust
\* Ownership" link second, and the call with limit 1 returned the latter.
C16_Witness ==
    /\ FqDone
    /\ fq_obs.ranked
    /\ fq.query = <<"r", "u", "s", "t", " ", "o", "w", "n", "e", "r", "s", "h", "i", "p">>
    /\ fq.limit = 1
    /\ Len(FqKept) >= 2
    /\ FqKept[1] = LinkPasta
    /\ fq_result = Some(<<LinkIntro>>)

\* The terms of the second pass: the cleaned terms, then the entity tokens.
ClaimedCleanedPass ==
    {<<<<"s", "h", "o", "w", " ", "m", "e", " ", "d", "o", "c", "s">>, <<"d", "o", "c", "s">>>>,
     <<<<"l", "i", "n", "k", "s", " ", "f", "r", "o", "m", " ", "A", "l", "i", "c", "e">>, <<"l", "i", "n", "k", "s", " ", "f", "r", "o", "m", " ", "a", "l", "i", "c", "e", " ", "A", "l", "i", "c", "e">>>>,
     <<<<"s", "h", "a", "r", "e", "d", " ", "b", "y", " ", "a", "l", "i", "c", "e", "-", "b", " ", "p", "a", "s", "t", "a">>, <<"s", "h", "a", "r", "e", "d", " ", "b", "y", " ", "a", "l", "i", "c", "e", " ", "b", " ", "p", "a", "s", "t", "a", " ", "a", "l", "i", "c", "e", "-", "b">>>>,
     <<<<"s", "o", "m", "e", "t", "h", "i", "n", "g", " ", "l", "a", "s", "t", " ", "w", "e", "e", "k">>, <<"s", "o", "m", "e", "t", "h", "i", "n", "g">>>>}

C18_CleanedTermsFirst ==
    (/\ FqRanked
     /\ clean_query_terms(fq.query) # <<>>
     /\ clean_query_terms(fq.query) # fq.query) =>
        /\ Len(fq_calls) >= 2
        /\ fq_calls[1].query = search_terms(fq.query, fq.entities)
        /\ fq_calls[2].query = fq.query

\* ========================================================== archive claims

ArDone == ar_pc = "done"

\* The steps of the local tier.
LocalTierOps == {"process_url", "write_text", "update_link_details"}

\* The call has taken a step of the local tier.
LocalTierStarted == \E i \in 1..Len(ar_obs.ops) : ar_obs.ops[i] \in LocalTierOps

\* C19: archive_link always attempts the Wayback tier first and starts the
\* local tier (process_url plus writing a local HTML file) only after the
\* Wayback attempt ended in a miss; when the Wayback attempt succeeds,
\* process_url is never invoked, no local file is written and archived_html
\* is not updated.
C19_WaybackFirst ==
    /\ \A i \in 1..Len(ar_obs.ops) : (ar_obs.ops[i] = "wayback") <=> (i = 1)
    /\ LocalTierStarted => IsNone(ar.wayback_snapshot)
    /\ ~IsNone(ar.wayback_snapshot) =>
          /\ ~LocalTierStarted
          /\ files = ar_obs.files_start
          /\ db.links = ar_obs.db_start.links

\* The second archive of a link hit the Wayback tier after the first one had
\* fallen back to a local file, and it returned the archive URL.
C19_Witness ==
    /\ ArDone
    /\ ar_obs.call = 2
    /\ files # NoFiles
    /\ ~IsNone(ar.wayback_snapshot)
    /\ ar_result = [kind |-> "returned", value |-> ar.wayback_snapshot]

\* The snapshot rows appended since the call began.
NewSnapshots ==
    SubSeq(db.link_snapshots, Len(ar_obs.db_start.link_snapshots) + 1,
           Len(db.link_snapshots))

\* C20: archive_link returns a non-null location L if and only if exactly one
\* new link_snapshots row (link_id, L) was appended during that call; when
\* both tiers fail (Wayback miss, and the local tier gets no page, no HTML or
\* an exception) it returns null, appends no snapshot row and raises nothing.
C20_ReturnedIffRecorded ==
    ArDone =>
        /\ SubSeq(db.link_snapshots, 1, Len(ar_obs.db_start.link_snapshots))
              = ar_obs.db_start.link_snapshots
        /\ IF ar_result.kind = "returned" /\ ~IsNone(ar_result.value)
           THEN NewSnapshots = <<[link_id |-> ar.link_id,
                                  snapshot_url |-> ar_result.value[1]]>>
           ELSE NewSnapshots = <<>>
        /\ IsNone(ar.wayback_snapshot) => ar_result.kind = "returned"
        /\ (IsNone(ar.wayback_snapshot) /\ ar.snapshot_path = "") =>
              ar_result = [kind |-> "returned", value |-> None]

\* The Wayback tier missed, the local tier wrote its file and the path came
\* back with its row; then a second call missed on both tiers.
C20_Witness ==
    /\ ArDone
    /\ ar_obs.call = 2
    /\ Len(ar_obs.db_start.link_snapshots) = 1
    /\ StartsWith(ar_obs.db_start.link_snapshots[1].snapshot_url, "snapshots/")
    /\ IsNone(ar.wayback_snapshot)
    /\ ar_obs.ops = <<"wayback", "process_url">>
    /\ ar_result = [kind |-> "returned", value |-> None]

\* str.endswith
EndsWith(s, suffix) ==
    Len(s) >= Len(suffix) /\ SubSeq(s, Len(s) - Len(suffix) + 1, Len(s)) = suffix

\* The call returned a location of the Wayback tier / of the local tier.
WaybackArchived ==
    ArDone /\ ar_result.kind = "returned" /\ ~IsNone(ar_result.value)
           /\ ~IsNone(ar.wayback_snapshot)

LocalArchived ==
    ArDone /\ ar_result.kind = "returned" /\ ~IsNone(ar_result.value)
           /\ IsNone(ar.wayback_snapshot)

\* The snapshot value the call stored.
StoredSnapshot == db.link_snapshots[Len(db.link_snapshots)].snapshot_url

\* C21: every snapshot value stored by a successful Wayback-tier archive
\* begins with https://web.archive.org, for every Content-Location value the
\* archive service can return (relative or absolute); every snapshot value
\* stored by a successful local-tier archive is a path ending in .html whose
\* file exists and whose content is the HTML of the page.
C21_StoredSnapshotValues ==
    /\ WaybackArchived => StartsWith(StoredSnapshot, "https://web.archive.org")
    /\ LocalArchived =>
          /\ EndsWith(StoredSnapshot, ".html")
          /\ StoredSnapshot \in DOMAIN files
          /\ files[StoredSnapshot] = ar.html

\* The part of C21 about the local tier holds.
C21_LocalSnapshotIsTheFile ==
    LocalArchived =>
        /\ EndsWith(StoredSnapshot, ".html")
        /\ StoredSnapshot \in DOMAIN files
        /\ files[StoredSnapshot] = ar.html

\* The call wrote its snapshot file.
WroteSnapshot == ar.snapshot_path # ""

\* C22: any two units of work that write a file write to distinct file paths,
\* so no unit overwrites another's file; in particular two local-tier
\* archives of the same link id within the same clock second yield two
\* distinct snapshot files.
C22_DistinctSnapshotFiles ==
    WroteSnapshot =>
        /\ ar.snapshot_path \notin DOMAIN ar_obs.files_start
        /\ \A p \in DOMAIN ar_obs.files_start : files[p] = ar_obs.files_start[p]

\* ============================================ claims: pipeline, continued

\* The render service was called and render_with_browser has ended.
RenderEnded == pu_obs.render_kind # "not_called"

\* A RenderResult comes back only with some content in it.
RenderResultHasContent ==
    pu_obs.render_kind = "result" =>
        \/ pu.render_result.html # EmptyHtml
        \/ ~IsEmptyText(pu.render_result.text_content)
        \/ pu.render_result.screenshot_base64 # "absent"

\* C23: render_with_browser never raises to its caller: for every response of
\* the render service (transport error, non-2xx status, non-JSON body, JSON
\* body that is not an object, JSON object with none of html, text_content
\* and screenshot_base64) it returns None, and it returns a RenderResult only
\* when at least one of the three content fields is non-empty.
C23_RenderNeverRaises ==
    RenderEnded =>
        /\ pu_obs.render_kind # "raise"
        /\ pu_obs.render_response \in
              {"transport_error", "non_json", "json_not_object"}
           => pu_obs.render_kind = "none"
        /\ RenderResultHasContent

\* Except for a JSON body that is not an object, the listed responses give
\* None, and a RenderResult has content.
C23_NoneUnlessContent ==
    RenderEnded =>
        /\ pu_obs.render_response \in {"transport_error", "non_json"}
           => pu_obs.render_kind = "none"
        /\ pu_obs.render_kind = "raise" => pu_obs.render_response = "json_not_object"
        /\ RenderResultHasContent


\* C26: escalation never makes the result worse than the direct fetch: a
\* process_url run whose tier-1 text is non-empty returns a non-empty
\* text_content, whatever the renderer answered.
C26_EscalationKeepsText ==
    (pu_pc = "done" /\ ~IsEmptyText(pu_obs.direct_text))
        => ~IsEmptyText(pu_result[1].text_content)

\* The part of C26 the code keeps: a run whose renderer gave no rendered HTML
\* and whose OCR gave nothing returns the tier-1 text itself.
C26_TextKeptWithoutRenderedHtml ==
    (/\ pu_pc = "done"
     /\ ~IsEmptyText(pu_obs.direct_text)
     /\ pu_obs.render_kind \in {"not_called", "none"}
        \/ (pu_obs.render_kind = "result" /\ pu.render_result.html = EmptyHtml)
     /\ IsEmptyText(pu_obs.ocr_text))
        => pu_result[1].text_content = pu_obs.direct_text

====
